---------------------------- MODULE Spec2Model ----------------------------
(***************************************************************************)
(* Model of the GDB server worker (gdb-server/src/worker.rs) and of the    *)
(* Cortex-M4 debug engine (probe-rs/src/architecture/arm/core/m4.rs).      *)
(*                                                                         *)
(* A 32-bit word (register value or address) is the set of its set bit     *)
(* positions, a subset of 0..31; Word(hi, lo) builds one from its two      *)
(* 16-bit halves.  Engine operations run to completion without yielding,   *)
(* so each is an operator from a machine record (target, access trace,     *)
(* result) to a machine record; "?" is the early return on res # "Ok".     *)
(***************************************************************************)
EXTENDS Integers, Sequences, FiniteSets, TLC

VARIABLES
    core,         \* engine-level: machine record of the M4 under test
    call,         \* engine-level: the last engine operation invoked and its inputs
    input_stream, \* worker: packets queued on the inbound channel
    input_closed, \* worker: the inbound channel's senders are gone
    output_open,  \* worker: the reply channel still has its receiver
    output_stream,\* worker: packets sent on the reply channel, oldest first
    awaits_halt,  \* worker: local of worker()
    wstate,       \* worker: "running", or how worker() ended
    target,       \* worker: the target core behind the session's Core
    received,     \* worker: number of packets put on the inbound channel so far
    handled       \* worker: history of the handler() invocations

vars == <<core, call, input_stream, input_closed, output_open, output_stream,
          awaits_halt, wstate, target, received, handled>>

engineVars == <<core, call>>
workerVars == <<input_stream, input_closed, output_open, output_stream,
                awaits_halt, wstate, target, received, handled>>

---------------------------------------------------------------------------
(* Words as bit sets *)

Bits16(n) == {i \in 0..15 : (n \div (2 ^ i)) % 2 = 1}

Word(hi, lo) == Bits16(lo) \cup {i + 16 : i \in Bits16(hi)}

SetBit(v, n, b) == IF b THEN v \cup {n} ELSE v \ {n}

\* value of the bit field msb:lsb of v, for fields of at most 16 bits
RECURSIVE SumBits(_, _)
SumBits(s, lsb) ==
    IF s = {} THEN 0
    ELSE LET i == CHOOSE x \in s : TRUE
         IN  2 ^ (i - lsb) + SumBits(s \ {i}, lsb)

Field(v, msb, lsb) == SumBits(v \cap (lsb..msb), lsb)

SetField(v, msb, lsb, n) ==
    (v \ (lsb..msb)) \cup {i + lsb : i \in {j \in Bits16(n) : j + lsb <= msb}}

NEVER == 0 - 1

---------------------------------------------------------------------------
(* Debug register model: bitfield! views and address constants (m4.rs)     *)

\* Dhcsr getters: s_halt 17, s_regrdy 16, c_debugen 0
s_halt(v) == 17 \in v
s_regrdy(v) == 16 \in v
c_debugen(v) == 0 \in v

\* Dhcsr setters
set_c_snapstall(v, b) == SetBit(v, 5, b)
set_c_maskints(v, b) == SetBit(v, 3, b)
set_c_step(v, b) == SetBit(v, 2, b)
set_c_halt(v, b) == SetBit(v, 1, b)
set_c_debugen(v, b) == SetBit(v, 0, b)

\* self.0 &= !(0xffff << 16); self.0 |= 0xa05f << 16;
Dhcsr_enable_write(v) == (v \ (16..31)) \cup Word(41055, 0)

DhcsrADDRESS == Word(57344, 60912)   \* 0xE000_EDF0

\* Dcrsr setters: regwnr 16, regsel 6:0
set_regwnr(v, b) == SetBit(v, 16, b)
set_regsel(v, n) == SetField(v, 6, 0, n)

DcrsrADDRESS == Word(57344, 60916)   \* 0xE000_EDF4
DcrdrADDRESS == Word(57344, 60920)   \* 0xE000_EDF8

\* Aircr: vectkey 31:16, sysresetreq 2
set_vectkey(v, k) == SetField(v, 31, 16, k)
set_sysresetreq(v, b) == SetBit(v, 2, b)
\* self.set_vectkey(0x05FA)
Aircr_vectkey(v) == set_vectkey(v, 1530)

AircrADDRESS == Word(57344, 60684)   \* 0xE000_ED0C

\* Demcr: vc_corereset 0
vc_corereset(v) == 0 \in v
set_vc_corereset(v, b) == SetBit(v, 0, b)

DemcrADDRESS == Word(57344, 60924)   \* 0xe000_edfc


\* u32 operators on words: >> and << (& is \cap)
Shr(v, n) == {i - n : i \in {j \in v : j >= n}}
Shl(v, n) == {i + n : i \in {j \in v : j + n <= 31}}

\* FpCompX: replace 31:30, comp 28:2, enable 0
set_replace(v, n) == SetField(v, 31, 30, n)
set_comp(v, w) == (v \ (2..28)) \cup {i \in Shl(w, 2) : i <= 28}
FpCompX_set_enable(v, b) == SetBit(v, 0, b)

\* breakpoint_configuration with a seeded fault: the half-word test looks
\* at bit 1 of the address only
breakpoint_configuration_tests_bit_1(address) ==
    LET comp_val == Shr(address \cap (2..28), 2)
        replace_val == IF address \cap {1} = {} THEN 1 ELSE 2
    IN  FpCompX_set_enable(set_comp(set_replace({}, replace_val), comp_val), TRUE)

\* FpCompX::breakpoint_configuration; 0x1f_ff_ff_fc is bits 28:2 and 0x3
\* bits 1:0
breakpoint_configuration(address) ==
    LET comp_val == Shr(address \cap (2..28), 2)
        replace_val == IF address \cap {0, 1} = {} THEN 1 ELSE 2
    IN  FpCompX_set_enable(set_comp(set_replace({}, replace_val), comp_val), TRUE)


\* FpCtrl: rev 31:28, num_code_1 14:12, num_lit 11:8, num_code_0 7:4,
\* key 1 (write only), enable 0
rev(v) == Field(v, 31, 28)
num_code_1(v) == Shr(v \cap (12..14), 12)
num_code_0(v) == Shr(v \cap (4..7), 4)
set_key(v, b) == SetBit(v, 1, b)
FpCtrl_set_enable(v, b) == SetBit(v, 0, b)

\* num_code with a seeded fault: num_code_0 is declared as bits 8:4
num_code_with_wide_low_field(v) == Shl(num_code_1(v), 4) \cup Shr(v \cap (4..8), 4)

\* (self.num_code_1() << 4) | self.num_code_0()
num_code(v) == Shl(num_code_1(v), 4) \cup num_code_0(v)

FpCtrlADDRESS == Word(57344, 8192)   \* 0xE000_2000

\* REGISTERS.PC = 0b000_1111, REGISTERS.XPSR = 0b001_0000
PC == 15
XPSR == 16

\* const XPSR_THUMB: u32 = 1 << 24
XPSR_THUMB == {24}

\* for _ in 0..100 of wait_for_core_halted / wait_for_core_register_transfer
HALT_POLLS == 100
REGRDY_POLLS == 100

---------------------------------------------------------------------------
(* The target behind the Memory capability.                                *)
(*  ctrl    DHCSR bits 15:0 as last accepted                               *)
(*  haltIn  DHCSR reads that still return S_HALT = 0 (0: halted,           *)
(*          NEVER: running with no halt pending)                           *)
(*  rdyIn   likewise for S_REGRDY                                          *)
(*  haltD, rdyD  how long the target takes to answer the next halt request *)
(*          and the next DCRSR transfer                                    *)
(*  failIn  accesses that still succeed before one transport error         *)
(*  fpctrl  FP_CTRL as read; a write with KEY set stores ENABLE            *)

RegSels == {PC, XPSR}

Countdown(n) == IF n > 0 THEN n - 1 ELSE n

RegOf(t, sel) == IF sel \in RegSels THEN t.regs[sel] ELSE {}

TargetRead(t, addr) ==
    IF addr = DhcsrADDRESS
    THEN t.ctrl \cup (IF t.haltIn = 0 THEN {17} ELSE {})
                \cup (IF t.rdyIn = 0 THEN {16} ELSE {})
    ELSE IF addr = DemcrADDRESS THEN t.demcr
    ELSE IF addr = DcrdrADDRESS THEN t.dcrdr
    ELSE IF addr = FpCtrlADDRESS THEN t.fpctrl
    ELSE {}

TargetAfterRead(t, addr) ==
    IF addr = DhcsrADDRESS
    THEN [t EXCEPT !.haltIn = Countdown(@), !.rdyIn = Countdown(@)]
    ELSE t

TargetWriteDhcsr(t, v) ==
    IF v \cap (16..31) # Word(41055, 0) THEN t
    ELSE LET c == v \cap (0..15)
         IN  [t EXCEPT !.ctrl = c,
                       !.haltIn = IF 0 \notin c THEN NEVER
                                  ELSE IF 1 \in c THEN (IF @ = 0 THEN 0 ELSE t.haltD)
                                  ELSE IF 2 \in c THEN t.haltD
                                  ELSE NEVER]

TargetWriteDcrsr(t, v) ==
    LET sel == Field(v, 6, 0)
    IN  IF 16 \in v
        THEN [t EXCEPT !.rdyIn = t.rdyD,
                       !.regs = IF sel \in RegSels
                                THEN [@ EXCEPT ![sel] = t.dcrdr] ELSE @]
        ELSE [t EXCEPT !.rdyIn = t.rdyD, !.dcrdr = RegOf(t, sel)]

TargetWriteAircr(t, v) ==
    IF Field(v, 31, 16) = 1530 /\ 2 \in v
    THEN [t EXCEPT !.regs = [@ EXCEPT ![XPSR] = t.resetXpsr, ![PC] = t.resetPc],
                   !.rdyIn = NEVER,
                   !.haltIn = IF 0 \in t.demcr /\ 0 \in t.ctrl
                              THEN t.haltD ELSE NEVER]
    ELSE t

TargetWrite(t, addr, v) ==
    IF addr = DhcsrADDRESS THEN TargetWriteDhcsr(t, v)
    ELSE IF addr = DcrsrADDRESS THEN TargetWriteDcrsr(t, v)
    ELSE IF addr = DcrdrADDRESS THEN [t EXCEPT !.dcrdr = v]
    ELSE IF addr = AircrADDRESS THEN TargetWriteAircr(t, v)
    ELSE IF addr = DemcrADDRESS THEN [t EXCEPT !.demcr = v]
    ELSE IF addr = FpCtrlADDRESS /\ 1 \in v
    THEN [t EXCEPT !.fpctrl = SetBit(@, 0, 0 \in v)]
    ELSE t

---------------------------------------------------------------------------
(* Memory capability: read32 / write32, each of which may fail.             *)
(* m.trace is the history of the accesses of the current call, run-length  *)
(* encoded: [op, addr, val, n] stands for n consecutive equal accesses.    *)

Log(trace, op, addr, v) ==
    LET k == Len(trace)
    IN  IF k > 0 /\ trace[k].op = op /\ trace[k].addr = addr /\ trace[k].val = v
        THEN [trace EXCEPT ![k].n = @ + 1]
        ELSE Append(trace, [op |-> op, addr |-> addr, val |-> v, n |-> 1])

read32(m, addr) ==
    IF m.t.failIn = 0
    THEN [m EXCEPT !.res = "Transport", !.t.failIn = NEVER]
    ELSE LET v == TargetRead(m.t, addr)
         IN  [m EXCEPT !.t = [TargetAfterRead(m.t, addr)
                                 EXCEPT !.failIn = Countdown(@)],
                       !.trace = Log(@, "R", addr, v),
                       !.val = v]

write32(m, addr, v) ==
    IF m.t.failIn = 0
    THEN [m EXCEPT !.res = "Transport", !.t.failIn = NEVER]
    ELSE [m EXCEPT !.t = [TargetWrite(m.t, addr, v)
                             EXCEPT !.failIn = Countdown(@)],
                   !.trace = Log(@, "W", addr, v)]

---------------------------------------------------------------------------
(* M4: the engine operations.  m.res is the Result: "Ok", "Timeout"        *)
(* (Error::Probe(DebugProbeError::Timeout)), "Unknown"                     *)
(* (Error::Probe(DebugProbeError::Unknown)) or "Transport"; m.val is the   *)
(* value of an Ok(u32) / Ok(CoreInformation { pc }).                       *)

\* One iteration of "for _ in 0..100 { read DHCSR; if bit set, return Ok }" on
\* the loop state [m, ret]: ret says that the function has returned (Ok on the
\* bit, or the read's error through "?"), after which iterations do nothing.
RegrdyBody(l) ==
    IF l.ret THEN l
    ELSE LET r == read32(l.m, DhcsrADDRESS)
         IN  [m |-> r, ret |-> r.res # "Ok" \/ s_regrdy(r.val)]

\* n iterations, split in halves to keep the evaluation shallow
RECURSIVE RegrdyLoop(_, _)
RegrdyLoop(l, n) ==
    IF n = 0 THEN l
    ELSE IF n = 1 THEN RegrdyBody(l)
    ELSE LET h == RegrdyLoop(l, n \div 2)
         IN  IF h.ret THEN h ELSE RegrdyLoop(h, n - (n \div 2))

\* wait_for_core_register_transfer with a seeded fault: the range is 0..=100
wait_for_core_register_transfer_inclusive(m) ==
    LET l == RegrdyLoop([m |-> m, ret |-> FALSE], REGRDY_POLLS + 1)
    IN  IF l.ret THEN l.m ELSE [l.m EXCEPT !.res = "Timeout"]

wait_for_core_register_transfer(m) ==
    LET l == RegrdyLoop([m |-> m, ret |-> FALSE], REGRDY_POLLS)
    IN  IF l.ret THEN l.m ELSE [l.m EXCEPT !.res = "Timeout"]

HaltedBody(l) ==
    IF l.ret THEN l
    ELSE LET r == read32(l.m, DhcsrADDRESS)
         IN  [m |-> r, ret |-> r.res # "Ok" \/ s_halt(r.val)]

RECURSIVE HaltedLoop(_, _)
HaltedLoop(l, n) ==
    IF n = 0 THEN l
    ELSE IF n = 1 THEN HaltedBody(l)
    ELSE LET h == HaltedLoop(l, n \div 2)
         IN  IF h.ret THEN h ELSE HaltedLoop(h, n - (n \div 2))

wait_for_core_halted(m) ==
    LET l == HaltedLoop([m |-> m, ret |-> FALSE], HALT_POLLS)
    IN  IF l.ret THEN l.m ELSE [l.m EXCEPT !.res = "Timeout"]

\* core_halted with a seeded fault: it waits for the halt before it answers
core_halted_waits(m) ==
    LET r == wait_for_core_halted(m)
    IN  IF r.res # "Ok" THEN r
        ELSE [r EXCEPT !.val = IF s_halt(r.val) THEN {0} ELSE {}]

core_halted(m) ==
    LET r == read32(m, DhcsrADDRESS)
    IN  IF r.res # "Ok" THEN r
        ELSE [r EXCEPT !.val = IF s_halt(r.val) THEN {0} ELSE {}]

read_core_reg(m, addr) ==
    LET dcrsr_val == set_regsel(set_regwnr({}, FALSE), addr)
        m1 == write32(m, DcrsrADDRESS, dcrsr_val)
        m2 == wait_for_core_register_transfer(m1)
    IN  IF m1.res # "Ok" THEN m1
        ELSE IF m2.res # "Ok" THEN m2
        ELSE read32(m2, DcrdrADDRESS)

\* write_core_reg with a seeded fault: the selector is written before the data
write_core_reg_selects_first(m, addr, value) ==
    LET dcrsr_val == set_regsel(set_regwnr({}, TRUE), addr)
        m1 == write32(m, DcrsrADDRESS, dcrsr_val)
        m2 == write32(m1, DcrdrADDRESS, value)
    IN  IF m1.res # "Ok" THEN m1
        ELSE IF m2.res # "Ok" THEN m2
        ELSE wait_for_core_register_transfer(m2)

write_core_reg(m, addr, value) ==
    LET m1 == write32(m, DcrdrADDRESS, value)
        dcrsr_val == set_regsel(set_regwnr({}, TRUE), addr)
        m2 == write32(m1, DcrsrADDRESS, dcrsr_val)
    IN  IF m1.res # "Ok" THEN m1
        ELSE IF m2.res # "Ok" THEN m2
        ELSE wait_for_core_register_transfer(m2)

\* halt with a seeded fault: the result of wait_for_core_halted is dropped

\* halt with a seeded fault: PC is read without waiting for the halt
halt_without_wait(m) ==
    LET value == Dhcsr_enable_write(set_c_debugen(set_c_halt({}, TRUE), TRUE))
        m1 == write32(m, DhcsrADDRESS, value)
    IN  IF m1.res # "Ok" THEN m1
        ELSE read_core_reg(m1, PC)
halt_ignores_timeout(m) ==
    LET value == Dhcsr_enable_write(set_c_debugen(set_c_halt({}, TRUE), TRUE))
        m1 == write32(m, DhcsrADDRESS, value)
        m2 == wait_for_core_halted(m1)
    IN  IF m1.res # "Ok" THEN m1
        ELSE read_core_reg([m2 EXCEPT !.res = "Ok"], PC)

halt(m) ==
    LET value == Dhcsr_enable_write(set_c_debugen(set_c_halt({}, TRUE), TRUE))
        m1 == write32(m, DhcsrADDRESS, value)
        m2 == wait_for_core_halted(m1)
    IN  IF m1.res # "Ok" THEN m1
        ELSE IF m2.res # "Ok" THEN m2
        ELSE read_core_reg(m2, PC)

run(m) ==
    LET value == Dhcsr_enable_write(set_c_debugen(set_c_halt({}, FALSE), TRUE))
    IN  write32(m, DhcsrADDRESS, value)

step(m) ==
    LET value == Dhcsr_enable_write(
                     set_c_maskints(
                         set_c_debugen(
                             set_c_halt(set_c_step({}, TRUE), FALSE), TRUE), TRUE))
        m1 == write32(m, DhcsrADDRESS, value)
        m2 == wait_for_core_halted(m1)
    IN  IF m1.res # "Ok" THEN m1
        ELSE IF m2.res # "Ok" THEN m2
        ELSE read_core_reg(m2, PC)

reset(m) ==
    LET value == set_sysresetreq(Aircr_vectkey({}), TRUE)
    IN  write32(m, AircrADDRESS, value)

\* EnsureDebugEnabled with a seeded fault: the value read is modified and written back
EnsureDebugEnabled_read_modify_write(m) ==
    LET m1 == read32(m, DhcsrADDRESS)
    IN  IF m1.res # "Ok" THEN m1
        ELSE IF ~c_debugen(m1.val)
        THEN write32(m1, DhcsrADDRESS, Dhcsr_enable_write(set_c_debugen(m1.val, TRUE)))
        ELSE m1

\* lines 452-458: ensure debug mode is enabled
EnsureDebugEnabled(m) ==
    LET m1 == read32(m, DhcsrADDRESS)
    IN  IF m1.res # "Ok" THEN m1
        ELSE IF ~c_debugen(m1.val)
        THEN write32(m1, DhcsrADDRESS, Dhcsr_enable_write(set_c_debugen({}, TRUE)))
        ELSE m1

\* FixThumb with a seeded fault: XPSR_THUMB is written instead of xpsr_value | XPSR_THUMB
FixThumb_drops_bits(m) ==
    LET m1 == read_core_reg(m, XPSR)
        xpsr_value == m1.val
    IN  IF m1.res # "Ok" THEN m1
        ELSE IF xpsr_value \cap XPSR_THUMB = {}
        THEN write_core_reg(m1, XPSR, XPSR_THUMB)
        ELSE m1

\* lines 473-477: keep the Thumb bit set after the reset
FixThumb(m) ==
    LET m1 == read_core_reg(m, XPSR)
        xpsr_value == m1.val
    IN  IF m1.res # "Ok" THEN m1
        ELSE IF xpsr_value \cap XPSR_THUMB = {}
        THEN write_core_reg(m1, XPSR, xpsr_value \cup XPSR_THUMB)
        ELSE m1

\* reset_and_halt with a seeded fault: DEMCR is restored after the PC read
reset_and_halt_restores_last(m) ==
    LET m1 == EnsureDebugEnabled(m)
        m2 == read32(m1, DemcrADDRESS)
        demcr_val == m2.val
        m3 == IF ~vc_corereset(demcr_val)
              THEN write32(m2, DemcrADDRESS, set_vc_corereset(demcr_val, TRUE))
              ELSE m2
        m4 == reset(m3)
        m5 == wait_for_core_halted(m4)
        m6 == FixThumb(m5)
        m7 == read_core_reg(m6, PC)
        m8 == write32(m7, DemcrADDRESS, demcr_val)
    IN  IF m1.res # "Ok" THEN m1
        ELSE IF m2.res # "Ok" THEN m2
        ELSE IF m3.res # "Ok" THEN m3
        ELSE IF m4.res # "Ok" THEN m4
        ELSE IF m5.res # "Ok" THEN m5
        ELSE IF m6.res # "Ok" THEN m6
        ELSE IF m7.res # "Ok" THEN m7
        ELSE m8

reset_and_halt(m) ==
    LET m1 == EnsureDebugEnabled(m)
        m2 == read32(m1, DemcrADDRESS)
        demcr_val == m2.val
        m3 == IF ~vc_corereset(demcr_val)
              THEN write32(m2, DemcrADDRESS, set_vc_corereset(demcr_val, TRUE))
              ELSE m2
        m4 == reset(m3)
        m5 == wait_for_core_halted(m4)
        m6 == FixThumb(m5)
        m7 == write32(m6, DemcrADDRESS, demcr_val)
    IN  IF m1.res # "Ok" THEN m1
        ELSE IF m2.res # "Ok" THEN m2
        ELSE IF m3.res # "Ok" THEN m3
        ELSE IF m4.res # "Ok" THEN m4
        ELSE IF m5.res # "Ok" THEN m5
        ELSE IF m6.res # "Ok" THEN m6
        ELSE IF m7.res # "Ok" THEN m7
        ELSE read_core_reg(m7, PC)


get_available_breakpoint_units(m) ==
    LET m1 == read32(m, FpCtrlADDRESS)
    IN  IF m1.res # "Ok" THEN m1
        ELSE IF rev(m1.val) = 0 THEN [m1 EXCEPT !.val = num_code(m1.val)]
        ELSE [m1 EXCEPT !.res = "Unknown"]

\* enable_breakpoints with a seeded fault: the flag follows the argument
enable_breakpoints_stores_state(m, state) ==
    LET val == FpCtrl_set_enable(set_key({}, TRUE), state)
        m1 == write32(m, FpCtrlADDRESS, val)
    IN  IF m1.res # "Ok" THEN m1
        ELSE [m1 EXCEPT !.hw_breakpoints_enabled = state]

enable_breakpoints(m, state) ==
    LET val == FpCtrl_set_enable(set_key({}, TRUE), state)
        m1 == write32(m, FpCtrlADDRESS, val)
    IN  IF m1.res # "Ok" THEN m1
        ELSE [m1 EXCEPT !.hw_breakpoints_enabled = TRUE]

\* FpCompX::ADDRESS (0xE000_2008) + (bp_unit_index * size_of::<u32>()) as
\* u32, for the indices below 128 that num_code allows (no carry out of the
\* low half)
FpCompAddress(bp_unit_index) == Word(57344, 8200 + bp_unit_index * 4)

set_breakpoint(m, bp_unit_index, addr) ==
    write32(m, FpCompAddress(bp_unit_index), breakpoint_configuration(addr))

clear_breakpoint(m, bp_unit_index) ==
    write32(m, FpCompAddress(bp_unit_index), FpCompX_set_enable({}, FALSE))

\* The breakpoint manager of Core: slots are assigned first-free, keyed by
\* address; allocation past num_code is refused.
find_free_breakpoint_unit(m, num) ==
    LET used == {m.active_breakpoints[i].register_hw :
                    i \in DOMAIN m.active_breakpoints}
    IN  CHOOSE u \in 0..(num - 1) :
            /\ u \notin used
            /\ \A w \in 0..(u - 1) : w \in used

set_hw_breakpoint(m, address) ==
    LET m1 == get_available_breakpoint_units(m)
        num_hw_breakpoints == Field(m1.val, 30, 0)
        present == \E i \in DOMAIN m.active_breakpoints :
                       m.active_breakpoints[i].address = address
        m2 == IF ~m1.hw_breakpoints_enabled THEN enable_breakpoints(m1, TRUE) ELSE m1
        bp_unit == find_free_breakpoint_unit(m2, num_hw_breakpoints)
        m3 == set_breakpoint(m2, bp_unit, address)
    IN  IF m1.res # "Ok" THEN m1
        ELSE IF present THEN m1
        ELSE IF num_hw_breakpoints <= Len(m1.active_breakpoints)
        THEN [m1 EXCEPT !.res = "Unknown"]
        ELSE IF m2.res # "Ok" THEN m2
        ELSE IF m3.res # "Ok" THEN m3
        ELSE [m3 EXCEPT !.active_breakpoints =
                  Append(@, [address |-> address, register_hw |-> bp_unit])]

clear_hw_breakpoint(m, address) ==
    LET at == {j \in DOMAIN m.active_breakpoints :
                  m.active_breakpoints[j].address = address}
    IN  IF at = {} THEN [m EXCEPT !.res = "Unknown"]
        ELSE LET i == CHOOSE j \in at : TRUE
                 m1 == clear_breakpoint(m, m.active_breakpoints[i].register_hw)
             IN  IF m1.res # "Ok" THEN m1
                 ELSE [m1 EXCEPT !.active_breakpoints =
                           SubSeq(@, 1, i - 1) \o SubSeq(@, i + 1, Len(@))]

---------------------------------------------------------------------------
(* Engine-level specification: engine operations called one after another  *)
(* on one M4, against every modelled target behaviour.                     *)

MaxCalls == 2
MaxFail == 12

\* DHCSR reads the target lets pass before a status bit reads set: at once, on
\* the last poll of a loop, just after it, never
Delays == {0, HALT_POLLS - 1, HALT_POLLS, NEVER}

\* how a target answers: hd and rd are the delays of S_HALT and S_REGRDY, f the
\* number of accesses of a call that succeed before a transport error
Oracles ==
    {[hd |-> h, rd |-> r, f |-> NEVER] : h \in Delays, r \in Delays}
        \cup {[hd |-> 0, rd |-> 0, f |-> k] : k \in 0..MaxFail}

DemcrValues == {{24}, {0, 24}}
XpsrValues == {{30}, {24, 30}}
ResetPc == Word(2048, 257)      \* 0x0800_0101
BootPc == Word(2048, 2468)      \* 0x0800_09A4

\* DHCSR control bits a target can hold at attach; with C_DEBUGEN clear the
\* other control bits are UNKNOWN on reads
CtrlValues == {{5}, {0}, {0, 1}}

\* FP_CTRL of a revision 0 unit with six comparators and two literal
\* comparators: 0x0000_0260
FpCtrlReset == Word(0, 608)

Targets ==
    {[ctrl |-> c,
      haltIn |-> IF c = {0, 1} THEN 0 ELSE NEVER,
      rdyIn |-> NEVER, haltD |-> o.hd, rdyD |-> o.rd,
      failAt |-> o.f, failIn |-> NEVER,
      demcr |-> d,
      regs |-> [r \in RegSels |-> IF r = XPSR THEN XPSR_THUMB ELSE BootPc],
      resetXpsr |-> x, resetPc |-> ResetPc,
      dcrdr |-> {}, fpctrl |-> FpCtrlReset] :
        c \in CtrlValues, d \in DemcrValues, x \in XpsrValues, o \in Oracles}

\* M4::new
M4_new(t) ==
    [t |-> t, trace |-> <<>>, res |-> "Ok", val |-> {},
     hw_breakpoints_enabled |-> FALSE, active_breakpoints |-> <<>>]

\* a call starts with an empty access trace
Arm(m) ==
    [m EXCEPT !.t.failIn = m.t.failAt, !.trace = <<>>, !.res = "Ok", !.val = {}]

EngineInit ==
    /\ core \in {M4_new(t) : t \in Targets}
    /\ call = [op |-> "new", n |-> 0]
    /\ input_stream = <<>>
    /\ input_closed = FALSE
    /\ output_open = TRUE
    /\ output_stream = <<>>
    /\ awaits_halt = FALSE
    /\ wstate = "running"
    /\ target = core.t
    /\ received = 0
    /\ handled = <<>>

CanCall == call.n < MaxCalls

Called(name) ==
    /\ call' = [op |-> name, n |-> call.n + 1]
    /\ UNCHANGED workerVars

EngHalt ==
    /\ CanCall
    /\ core' = halt(Arm(core))
    /\ Called("halt")

EngRun ==
    /\ CanCall
    /\ core' = run(Arm(core))
    /\ Called("run")

EngStep ==
    /\ CanCall
    /\ core' = step(Arm(core))
    /\ Called("step")

EngReset ==
    /\ CanCall
    /\ core' = reset(Arm(core))
    /\ Called("reset")

EngResetAndHalt ==
    /\ CanCall
    /\ core' = reset_and_halt(Arm(core))
    /\ Called("reset_and_halt")

EngWaitHalted ==
    /\ CanCall
    /\ core' = wait_for_core_halted(Arm(core))
    /\ Called("wait_for_core_halted")

EngCoreHalted ==
    /\ CanCall
    /\ core' = core_halted(Arm(core))
    /\ Called("core_halted")

EngReadCoreReg ==
    \E addr \in RegSels :
        /\ CanCall
        /\ core' = read_core_reg(Arm(core), addr)
        /\ Called("read_core_reg")

EngWriteCoreReg ==
    \E value \in XpsrValues :
        /\ CanCall
        /\ core' = write_core_reg(Arm(core), XPSR, value)
        /\ Called("write_core_reg")

\* the running core halts by itself (a breakpoint is hit)
EngTargetHalts ==
    /\ CanCall
    /\ core.t.haltIn # 0
    /\ 0 \in core.t.ctrl
    /\ core' = [core EXCEPT !.t.haltIn = 0]
    /\ UNCHANGED <<call, workerVars>>

EngineNext ==
    \/ EngHalt
    \/ EngRun
    \/ EngStep
    \/ EngReset
    \/ EngResetAndHalt
    \/ EngWaitHalted
    \/ EngCoreHalted
    \/ EngReadCoreReg
    \/ EngWriteCoreReg
    \/ EngTargetHalts

SpecEngine == EngineInit /\ [][EngineNext]_vars

---------------------------------------------------------------------------
(* GDB server worker (gdb-server/src/worker.rs).                           *)
(* A byte string is a sequence of one-character strings; ETX is the byte   *)
(* 0x03.  A packet on the inbound channel is [data, valid, id]: valid is   *)
(* CheckedPacket::is_valid() and id the packet's position in the order of  *)
(* arrival.  A packet on the reply channel is [data, src, at]: src is the  *)
(* id of the inbound packet whose handler sent it (0 when await_halt sent  *)
(* it) and at the number of handler invocations made before it was sent.   *)

ETX == "ETX"

Digits == {"0", "1", "2", "3", "4", "5", "6", "7", "8", "9"}
HexLower == {"a", "b", "c", "d", "e", "f"}
HexUpper == {"A", "B", "C", "D", "E", "F"}
Letters ==
    {"a", "b", "c", "d", "e", "f", "g", "h", "i", "j", "k", "l", "m",
     "n", "o", "p", "q", "r", "s", "t", "u", "v", "w", "x", "y", "z",
     "A", "B", "C", "D", "E", "F", "G", "H", "I", "J", "K", "L", "M",
     "N", "O", "P", "Q", "R", "S", "T", "U", "V", "W", "X", "Y", "Z"}

\* [u8]::starts_with
starts_with(data, prefix) ==
    /\ Len(data) >= Len(prefix)
    /\ \A i \in 1..Len(prefix) : data[i] = prefix[i]

\* data[from..to], 1-based and inclusive
Slice(data, from, to) == [i \in 1..(to - from + 1) |-> data[from + i - 1]]

\* last index of the longest run of characters of class cls starting at pos
\* (pos - 1 when data[pos] is not in the class)
RECURSIVE RunEnd(_, _, _)
RunEnd(data, pos, cls) ==
    IF pos <= Len(data) /\ data[pos] \in cls
    THEN RunEnd(data, pos + 1, cls) ELSE pos - 1

WordChars == Digits \cup Letters \cup {"_"}

\* Match of a recap pattern at position pos.  A pattern is a sequence of
\* tokens, a literal character or "\\w+".  A run is greedy, and no literal
\* that follows a run is a word character, so there is nothing to backtrack.
\* caps collects the captured groups.
RECURSIVE MatchAt(_, _, _, _, _)
MatchAt(data, pos, pat, k, caps) ==
    IF k > Len(pat) THEN [ok |-> TRUE, caps |-> caps]
    ELSE IF pat[k] = "\\w+"
    THEN LET e == RunEnd(data, pos, WordChars)
         IN  IF e < pos THEN [ok |-> FALSE, caps |-> <<>>]
             ELSE MatchAt(data, e + 1, pat, k + 1, Append(caps, Slice(data, pos, e)))
    ELSE IF pos <= Len(data) /\ data[pos] = pat[k]
    THEN MatchAt(data, pos + 1, pat, k + 1, caps)
    ELSE [ok |-> FALSE, caps |-> <<>>]

\* str::parse::<T>() of a Recap type: the leftmost match anywhere in the string
Recap(data, pat) ==
    LET hits == {i \in 1..Len(data) : MatchAt(data, i, pat, 1, <<>>).ok}
    IN  IF hits = {} THEN [ok |-> FALSE, caps |-> <<>>]
        ELSE MatchAt(data, CHOOSE i \in hits : \A j \in hits : i <= j, pat, 1, <<>>)

HexDigits == <<"0", "1", "2", "3", "4", "5", "6", "7", "8", "9",
               "a", "b", "c", "d", "e", "f">>

HexValue(c) ==
    IF c \in Digits \cup HexLower
    THEN (CHOOSE i \in 1..16 : HexDigits[i] = c) - 1
    ELSE (CHOOSE i \in 11..16 : HexDigits[i] = c) - 1

UpperToLower(c) ==
    CASE c = "A" -> "a" [] c = "B" -> "b" [] c = "C" -> "c"
      [] c = "D" -> "d" [] c = "E" -> "e" [] c = "F" -> "f" [] OTHER -> c

IsHex(s) == s # <<>> /\ \A i \in 1..Len(s) : s[i] \in Digits \cup HexLower \cup HexUpper

\* the digits of s without leading zeros
RECURSIVE Significant(_)
Significant(s) ==
    IF Len(s) > 1 /\ s[1] = "0" THEN Significant(Tail(s)) ELSE s

RECURSIVE HexNumber(_)
HexNumber(s) ==
    IF s = <<>> THEN 0
    ELSE 16 * HexNumber(SubSeq(s, 1, Len(s) - 1)) + HexValue(UpperToLower(s[Len(s)]))

\* u8::from_str_radix(s, 16): [ok, val]
u8_from_str_radix(s) ==
    IF IsHex(s) /\ Len(Significant(s)) <= 2
    THEN [ok |-> TRUE, val |-> HexNumber(Significant(s))]
    ELSE [ok |-> FALSE, val |-> 0]

\* format!("{:02x}", b) of a byte
Hex02(b) == <<HexDigits[(b \div 16) + 1], HexDigits[(b % 16) + 1]>>

\* format!("{:02x}{:02x}{:02x}{:02x}", value as u8, (value >> 8) as u8, ...)
HexLittleEndian(value) ==
    Hex02(Field(value, 7, 0)) \o Hex02(Field(value, 15, 8))
        \o Hex02(Field(value, 23, 16)) \o Hex02(Field(value, 31, 24))

\* gdb_sanitize_file(data, offset, len)
Min(a, b) == IF a < b THEN a ELSE b

\* gdb_sanitize_file with a seeded fault: the marker test is > instead of >=
gdb_sanitize_file_strict(data, offset, len) ==
    IF offset > Len(data) THEN <<"l">>
    ELSE LET end == Min(offset + len, Len(data))
             trimmed_data == SubSeq(data, offset + 1, end)
         IN  IF Len(trimmed_data) > len
             THEN <<"m">> \o trimmed_data
             ELSE <<"l">> \o trimmed_data

gdb_sanitize_file(data, offset, len) ==
    IF offset > Len(data) THEN <<"l">>
    ELSE LET end == Min(offset + len, Len(data))
             trimmed_data == SubSeq(data, offset + 1, end)
         IN  IF Len(trimmed_data) >= len
             THEN <<"m">> \o trimmed_data
             ELSE <<"l">> \o trimmed_data

\* the memory map served by qXfer
MemoryMapXml ==
    <<"<", "?", "x", "m", "l", " ", "v", "e", "r", "s", "i", "o", "n", "=",
      "\"", "1", ".", "0", "\"", "?", ">", "\n", "<", "!", "D", "O", "C",
      "T", "Y", "P", "E", " ", "m", "e", "m", "o", "r", "y", "-", "m", "a",
      "p", " ", "P", "U", "B", "L", "I", "C", " ", "\"", "+", "/", "/",
      "I", "D", "N", " ", "g", "n", "u", ".", "o", "r", "g", "/", "/", "D",
      "T", "D", " ", "G", "D", "B", " ", "M", "e", "m", "o", "r", "y", " ",
      "M", "a", "p", " ", "V", "1", ".", "0", "/", "/", "E", "N", "\"",
      " ", "\"", "h", "t", "t", "p", ":", "/", "/", "s", "o", "u", "r",
      "c", "e", "w", "a", "r", "e", ".", "o", "r", "g", "/", "g", "d", "b",
      "/", "g", "d", "b", "-", "m", "e", "m", "o", "r", "y", "-", "m", "a",
      "p", ".", "d", "t", "d", "\"", ">", "\n", "<", "m", "e", "m", "o",
      "r", "y", "-", "m", "a", "p", ">", "\n", "<", "m", "e", "m", "o",
      "r", "y", " ", "t", "y", "p", "e", "=", "\"", "r", "a", "m", "\"",
      " ", "s", "t", "a", "r", "t", "=", "\"", "0", "x", "2", "0", "0",
      "0", "0", "0", "0", "0", "\"", " ", "l", "e", "n", "g", "t", "h",
      "=", "\"", "0", "x", "4", "0", "0", "0", "\"", "/", ">", "\n", "<",
      "m", "e", "m", "o", "r", "y", " ", "t", "y", "p", "e", "=", "\"",
      "r", "o", "m", "\"", " ", "s", "t", "a", "r", "t", "=", "\"", "0",
      "x", "0", "0", "0", "0", "0", "0", "0", "0", "\"", " ", "l", "e",
      "n", "g", "t", "h", "=", "\"", "0", "x", "4", "0", "0", "0", "0",
      "\"", "/", ">", "\n", "<", "/", "m", "e", "m", "o", "r", "y", "-",
      "m", "a", "p", ">">>

QSupportedReply ==
    <<"P", "a", "c", "k", "e", "t", "S", "i", "z", "e", "=", "2", "0", "4",
      "8", ";", "s", "w", "b", "r", "e", "a", "k", "-", ";", "h", "w", "b",
      "r", "e", "a", "k", "+", ";", "v", "C", "o", "n", "t", "S", "u", "p",
      "p", "o", "r", "t", "e", "d", "+", ";", "q", "X", "f", "e", "r", ":",
      "m", "e", "m", "o", "r", "y", "-", "m", "a", "p", ":", "r", "e", "a",
      "d", "+">>

StopReply == <<"T", "0", "5", "h", "w", "b", "r", "e", "a", "k", ":", ";">>

OK == <<"O", "K">>

S05 == <<"S", "0", "5">>

\* The if-chain of handler(): the first test that matches selects the branch.
Branch(data) ==
    IF starts_with(data, <<"q", "S", "u", "p", "p", "o", "r", "t", "e", "d">>) THEN "qSupported"
    ELSE IF starts_with(data, <<"v", "M", "u", "s", "t", "R", "e", "p", "l", "y", "E", "m", "p", "t", "y">>) THEN "vMustReplyEmpty"
    ELSE IF starts_with(data, <<"q", "T", "S", "t", "a", "t", "u", "s">>) THEN "qTStatus"
    ELSE IF starts_with(data, <<"q", "T", "f", "V">>) THEN "qTfV"
    ELSE IF starts_with(data, <<"q", "A", "t", "t", "a", "c", "h", "e", "d">>) THEN "qAttached"
    ELSE IF starts_with(data, <<"?">>) THEN "?"
    ELSE IF starts_with(data, <<"g">>) THEN "g"
    ELSE IF starts_with(data, <<"p">>) THEN "p"
    ELSE IF starts_with(data, <<"q", "T", "s", "P">>) THEN "qTsP"
    ELSE IF starts_with(data, <<"q", "f", "T", "h", "r", "e", "a", "d", "I", "n", "f", "o">>) THEN "qfThreadInfo"
    ELSE IF starts_with(data, <<"m">>) THEN "m"
    ELSE IF starts_with(data, <<"q", "L">>) THEN "qL"
    ELSE IF starts_with(data, <<"q", "C">>) THEN "qC"
    ELSE IF starts_with(data, <<"q", "O", "f", "f", "s", "e", "t", "s">>) THEN "qOffsets"
    ELSE IF starts_with(data, <<"v", "C", "o", "n", "t", "?">>) THEN "vCont?"
    ELSE IF
            \/ starts_with(data, <<"v", "C", "o", "n", "t", "b", ";", "c">>)
            \/ starts_with(data, <<"c">>)
    THEN "c"
    ELSE IF starts_with(data, <<"v", "C", "o", "n", "t", "b", ";", "t">>) THEN "t"
    ELSE IF
            \/ starts_with(data, <<"v", "C", "o", "n", "t", "b", ";", "s">>)
            \/ starts_with(data, <<"s">>)
    THEN "s"
    ELSE IF starts_with(data, <<"Z", "0">>) THEN "Z0"
    ELSE IF starts_with(data, <<"Z", "1">>) THEN "Z1"
    ELSE IF starts_with(data, <<"z", "1">>) THEN "z1"
    ELSE IF starts_with(data, <<"X">>) THEN "X"
    ELSE IF starts_with(data, <<"q", "X", "f", "e", "r", ":", "m", "e", "m", "o", "r", "y", "-", "m", "a", "p", "b", ":", "r", "e", "a", "d">>) THEN "qXfer"
    ELSE IF starts_with(data, <<ETX>>) THEN "ETX"
    ELSE IF starts_with(data, <<"D">>) THEN "D"
    ELSE IF starts_with(data, <<"q", "R", "c", "m", "d", "b", ",", "7", "2", "6", "5", "7", "3", "6", "5", "7", "4">>) THEN "qRcmd"
    ELSE "default"

\* Option<String>
None == [some |-> FALSE, data |-> <<>>]
Some(d) == [some |-> TRUE, data |-> d]

\* "let _ = ..." on an engine Result: the error is dropped
Ignore(m) == [m EXCEPT !.res = "Ok"]

\* How the computation of `response` ends: with a value (panic = "none"), or
\* in the panic of an unwrap(), on a parse error ("parse") or on an engine
\* error ("engine").
Ret(m, awaits, response, break_due) ==
    [m |-> m, awaits |-> awaits, response |-> response,
     break_due |-> break_due, panic |-> "none"]

Panic(m, awaits, cause) ==
    [m |-> m, awaits |-> awaits, response |-> None,
     break_due |-> FALSE, panic |-> cause]

\* lines 68-98
ReadRegister(m, awaits, data) ==
    LET p == Recap(data, <<"p", "\\w+">>)
        m1 == Ignore(halt(m))
        m2 == wait_for_core_halted(m1)
        reg == u8_from_str_radix(p.caps[1])
        m3 == read_core_reg(m2, reg.val)
    IN  IF ~p.ok THEN Panic(m, awaits, "parse")
        ELSE IF m2.res # "Ok" THEN Panic(m2, awaits, "engine")
        ELSE IF ~reg.ok THEN Panic(m2, awaits, "parse")
        ELSE IF m3.res # "Ok" THEN Panic(m3, awaits, "engine")
        ELSE Ret(m3, awaits, Some(HexLittleEndian(m3.val)), FALSE)

\* lines 136-139
Continue(m, awaits) ==
    LET m1 == run(m)
    IN  IF m1.res # "Ok" THEN Panic(m1, awaits, "engine")
        ELSE Ret(m1, TRUE, None, FALSE)

\* lines 140-144
Stop(m, awaits) ==
    LET m1 == halt(m)
        m2 == wait_for_core_halted(m1)
    IN  IF m1.res # "Ok" THEN Panic(m1, awaits, "engine")
        ELSE IF m2.res # "Ok" THEN Panic(m2, awaits, "engine")
        ELSE Ret(m2, FALSE, Some(OK), FALSE)

\* lines 145-148
Step(m, awaits) ==
    LET m1 == step(m)
    IN  IF m1.res # "Ok" THEN Panic(m1, awaits, "engine")
        ELSE Ret(m1, FALSE, Some(S05), FALSE)

\* lines 216-219
Interrupt(m, awaits) ==
    LET m1 == Ignore(halt(m))
        m2 == wait_for_core_halted(m1)
    IN  IF m2.res # "Ok" THEN Panic(m2, awaits, "engine")
        ELSE Ret(m2, awaits, Some(StopReply), FALSE)

\* lines 223-226
MonitorReset(m, awaits) ==
    LET m1 == Ignore(reset(m))
        m2 == Ignore(halt(m1))
    IN  Ret(m2, awaits, Some(OK), FALSE)

\* An engine operation of the branch failed and its error was dropped by
\* "let _ =" (lines 77, 217, 224, 225); recorded in the history of handler
\* invocations.
IgnoredFailure(m, data) ==
    LET b == Branch(data)
    IN  IF b = "p" THEN Recap(data, <<"p", "\\w+">>).ok /\ halt(m).res # "Ok"
        ELSE IF b = "ETX" THEN halt(m).res # "Ok"
        ELSE IF b = "qRcmd"
        THEN reset(m).res # "Ok" \/ halt(Ignore(reset(m))).res # "Ok"
        ELSE FALSE

\* lines 54-233: the value of `response`, with the branch's effects on the
\* core, on awaits_halt and on break_due.  The two tests of lines 227-230
\* repeat the one of line 60 and never match.  The branches m, X, Z1 and z1
\* go through Memory::read_block8 / write_block8 and Core::set_hw_breakpoint /
\* clear_hw_breakpoint; Payloads holds no command that selects one of them.
Response(m, awaits, data) ==
    LET b == Branch(data)
    IN  CASE b = "qSupported" -> Ret(m, awaits, Some(QSupportedReply), FALSE)
          [] b \in {"vMustReplyEmpty", "qTStatus", "qTfV", "qTsP", "qfThreadInfo",
                    "qL", "qC", "qOffsets", "Z0"} -> Ret(m, awaits, Some(<<>>), FALSE)
          [] b = "qAttached" -> Ret(m, awaits, Some(<<"1">>), FALSE)
          [] b = "?" -> Ret(m, awaits, Some(S05), FALSE)
          [] b = "g" ->
                Ret(m, awaits, Some(<<"x", "x", "x", "x", "x", "x", "x", "x">>), FALSE)
          [] b = "p" -> ReadRegister(m, awaits, data)
          [] b = "vCont?" ->
                Ret(m, awaits,
                    Some(<<"v", "C", "o", "n", "t", ";", "c", ";", "t", ";", "s">>),
                    FALSE)
          [] b = "c" -> Continue(m, awaits)
          [] b = "t" -> Stop(m, awaits)
          [] b = "s" -> Step(m, awaits)
          [] b = "qXfer" ->
                Ret(m, awaits, Some(gdb_sanitize_file(MemoryMapXml, 0, 1000)), FALSE)
          [] b = "ETX" -> Interrupt(m, awaits)
          [] b = "D" -> Ret(m, awaits, Some(OK), TRUE)
          [] b = "qRcmd" -> MonitorReset(m, awaits)
          [] b = "default" -> Ret(m, awaits, Some(OK), FALSE)

\* UnboundedSender::unbounded_send on the reply channel out = [open, stream]
unbounded_send(out, packet) ==
    IF out.open
    THEN [ok |-> TRUE, out |-> [out EXCEPT !.stream = Append(@, packet)]]
    ELSE [ok |-> FALSE, out |-> out]

\* The outcome of handler(): ret is "Ok" (with break_due), "Err" (the "?" of
\* line 242) or "panic"; cause says what failed.
Outcome(r, out, ret, cause) ==
    [m |-> r.m, out |-> out, awaits |-> r.awaits, response |-> r.response,
     ret |-> ret, break_due |-> ret = "Ok" /\ r.break_due, cause |-> cause]

\* Reply with a seeded fault: the response is sent once more after the first send
Reply_sends_twice(r, out, packet, at) ==
    LET reply == [data |-> r.response.data, src |-> packet.id, at |-> at]
        sent == unbounded_send(out, reply)
        again == unbounded_send(sent.out, reply)
    IN  IF r.panic # "none" THEN Outcome(r, out, "panic", r.panic)
        ELSE IF ~r.response.some THEN Outcome(r, out, "Ok", "none")
        ELSE IF ~again.ok THEN Outcome(r, out, "Err", "send")
        ELSE Outcome(r, again.out, "Ok", "none")

\* lines 235-245: the response r, if there is one, is sent on the reply channel
Reply(r, out, packet, at) ==
    LET reply == [data |-> r.response.data, src |-> packet.id, at |-> at]
        sent == unbounded_send(out, reply)
    IN  IF r.panic # "none" THEN Outcome(r, out, "panic", r.panic)
        ELSE IF ~r.response.some THEN Outcome(r, out, "Ok", "none")
        ELSE IF ~sent.ok THEN Outcome(r, out, "Err", "send")
        ELSE Outcome(r, sent.out, "Ok", "none")

\* handler with a seeded fault: packet.is_valid() is not tested
handler_ignores_validity(m, out, awaits, packet, at) ==
    Reply(Response(m, awaits, packet.data), out, packet, at)

\* handler(core, output_stream, awaits_halt, packet)
handler(m, out, awaits, packet, at) ==
    IF ~packet.valid THEN Outcome(Ret(m, awaits, None, FALSE), out, "Ok", "none")
    ELSE Reply(Response(m, awaits, packet.data), out, packet, at)

\* await_halt(core, output_stream, await_halt): [m, out, panic]
await_halt(m, out, await_halt_arg, at) ==
    IF ~await_halt_arg THEN [m |-> m, out |-> out, panic |-> FALSE]
    ELSE LET m1 == core_halted(m)
             response == [data |-> StopReply, src |-> 0, at |-> at]
         IN  IF m1.res # "Ok" THEN [m |-> m1, out |-> out, panic |-> TRUE]
             ELSE IF m1.val = {0}
             THEN [m |-> m1, out |-> unbounded_send(out, response).out,
                   panic |-> FALSE]
             ELSE [m |-> m1, out |-> out, panic |-> FALSE]

---------------------------------------------------------------------------
(* Worker-level specification: worker() against a debugger that sends      *)
(* packets and may hang up either channel, and a target that may halt by   *)
(* itself.                                                                 *)

MaxPackets == 2
MaxNotify == 2

\* payloads the debugger sends
Payloads ==
    {<<"c">>,
     <<"v", "C", "o", "n", "t", ";", "c">>,
     <<"v", "C", "o", "n", "t", ";", "t">>,
     <<"s">>,
     <<"D">>,
     <<ETX>>,
     <<"?">>,
     <<"p", "0", "f">>,
     <<"p">>}

\* received packets: any payload with a good checksum, some with a bad one
Packets ==
    {[data |-> d, valid |-> TRUE] : d \in Payloads}
        \cup {[data |-> d, valid |-> FALSE] : d \in {<<"c">>, <<"D">>, <<ETX>>}}

\* targets the session is attached to: halted or running, answering at once,
\* answering a halt request only after HALT_POLLS reads, or behind a probe
\* whose first access of a command fails
WorkerOracles ==
    {[hd |-> 0, rd |-> 0, f |-> NEVER],
     [hd |-> HALT_POLLS, rd |-> 0, f |-> NEVER],
     [hd |-> 0, rd |-> 0, f |-> 0]}

WorkerTargets ==
    {t \in Targets :
        /\ t.ctrl \in {{0}, {0, 1}}
        /\ t.demcr = {24}
        /\ t.resetXpsr = {24, 30}
        /\ [hd |-> t.haltD, rd |-> t.rdyD, f |-> t.failAt] \in WorkerOracles}

\* line 23-24
Init ==
    /\ target \in WorkerTargets
    /\ awaits_halt = FALSE
    /\ input_stream = <<>>
    /\ input_closed = FALSE
    /\ output_open = TRUE
    /\ output_stream = <<>>
    /\ wstate = "running"
    /\ received = 0
    /\ handled = <<>>
    /\ core = M4_new(target)
    /\ call = [op |-> "new", n |-> 0]

Notifications == Cardinality({i \in DOMAIN output_stream : output_stream[i].src = 0})

\* the debugger sends a packet
Receive ==
    \E p \in Packets :
        /\ ~input_closed
        /\ received < MaxPackets
        /\ input_stream' = Append(input_stream,
                                  [data |-> p.data, valid |-> p.valid, id |-> received + 1])
        /\ received' = received + 1
        /\ UNCHANGED <<input_closed, output_open, output_stream, awaits_halt,
                       wstate, target, handled, engineVars>>

\* the senders of the inbound channel are dropped
CloseInput ==
    /\ ~input_closed
    /\ input_closed' = TRUE
    /\ UNCHANGED <<input_stream, output_open, output_stream, awaits_halt,
                   wstate, target, received, handled, engineVars>>

\* the receiver of the reply channel is dropped
CloseOutput ==
    /\ output_open
    /\ output_open' = FALSE
    /\ UNCHANGED <<input_stream, input_closed, output_stream, awaits_halt,
                   wstate, target, received, handled, engineVars>>

\* the running core halts by itself (a breakpoint is hit)
TargetHalts ==
    /\ wstate = "running"
    /\ target.haltIn # 0
    /\ 0 \in target.ctrl
    /\ target' = [target EXCEPT !.haltIn = 0]
    /\ UNCHANGED <<input_stream, input_closed, output_open, output_stream,
                   awaits_halt, wstate, received, handled, engineVars>>

\* lines 31-33: where worker() is after handler(...).await
AfterHandler(r) ==
    IF r.ret = "panic" THEN "panicked"
    ELSE IF r.ret = "Err" THEN "failed"
    ELSE IF r.break_due THEN "detached"
    ELSE "running"

\* lines 28-33: input_stream.next() yields a packet
HandlePacket ==
    /\ wstate = "running"
    /\ input_stream # <<>>
    /\ \E r \in {handler(Arm(M4_new(target)),
                          [open |-> output_open, stream |-> output_stream],
                          awaits_halt, Head(input_stream), Len(handled))} :
           /\ input_stream' = Tail(input_stream)
           /\ target' = r.m.t
           /\ awaits_halt' = r.awaits
           /\ output_stream' = r.out.stream
           /\ wstate' = AfterHandler(r)
           /\ handled' = Append(handled,
                  [id |-> Head(input_stream).id, data |-> Head(input_stream).data,
                   valid |-> Head(input_stream).valid,
                   ret |-> r.ret, break_due |-> r.break_due, cause |-> r.cause,
                   response |-> r.response, awaits_before |-> awaits_halt,
                   awaits_after |-> r.awaits, trace |-> r.m.trace,
                   open |-> output_open,
                   dropped |-> Head(input_stream).valid
                               /\ IgnoredFailure(Arm(M4_new(target)),
                                                 Head(input_stream).data)])
    /\ UNCHANGED <<input_closed, output_open, received, engineVars>>

\* lines 34-36: input_stream.next() yields None
InputEnded ==
    /\ wstate = "running"
    /\ input_stream = <<>>
    /\ input_closed
    /\ wstate' = "closed"
    /\ UNCHANGED <<input_stream, input_closed, output_open, output_stream,
                   awaits_halt, target, received, handled, engineVars>>

\* line 38: the await_halt future completes
HaltPoll ==
    /\ wstate = "running"
    /\ Notifications < MaxNotify
    /\ \E r \in {await_halt(Arm(M4_new(target)),
                             [open |-> output_open, stream |-> output_stream],
                             awaits_halt, Len(handled))} :
           /\ target' = r.m.t
           /\ output_stream' = r.out.stream
           /\ wstate' = IF r.panic THEN "panicked" ELSE "running"
    /\ UNCHANGED <<input_stream, input_closed, output_open, awaits_halt,
                   received, handled, engineVars>>

Next ==
    \/ Receive
    \/ CloseInput
    \/ CloseOutput
    \/ TargetHalts
    \/ HandlePacket
    \/ InputEnded
    \/ HaltPoll

Spec == Init /\ [][Next]_vars


---------------------------------------------------------------------------
(* worker() under the scheduling of select!: of the futures that are ready *)
(* one is picked pseudo-randomly, so neither the packet branch nor the     *)
(* halt poll is passed over for ever.  The last poll is kept in core, and  *)
(* call says after how many packets it ran and with which awaits_halt.     *)

\* the debugger sends a packet: continue, step, Ctrl-C, detach or a status
\* query, or a continue with a bad checksum
LiveReceive ==
    \E p \in {q \in Packets :
                 \/ q.valid /\ q.data \in {<<"c">>, <<"s">>, <<ETX>>, <<"D">>, <<"?">>}
                 \/ ~q.valid /\ q.data = <<"c">>} :
        /\ ~input_closed
        /\ received < MaxPackets
        /\ input_stream' = Append(input_stream,
                                  [data |-> p.data, valid |-> p.valid, id |-> received + 1])
        /\ received' = received + 1
        /\ UNCHANGED <<input_closed, output_open, output_stream, awaits_halt,
                       wstate, target, handled, engineVars>>

\* line 38: the await_halt future completes
LivePoll ==
    /\ wstate = "running"
    /\ Notifications < MaxNotify
    /\ \E r \in {await_halt(Arm(M4_new(target)),
                             [open |-> output_open, stream |-> output_stream],
                             awaits_halt, Len(handled))} :
           /\ target' = r.m.t
           /\ output_stream' = r.out.stream
           /\ wstate' = IF r.panic THEN "panicked" ELSE "running"
           /\ core' = r.m
    /\ call' = [op |-> "await_halt", n |-> Len(handled), awaits |-> awaits_halt]
    /\ UNCHANGED <<input_stream, input_closed, output_open, awaits_halt,
                   received, handled>>

LiveNext ==
    \/ LiveReceive
    \/ CloseInput
    \/ CloseOutput
    \/ TargetHalts
    \/ HandlePacket
    \/ InputEnded
    \/ LivePoll

\* The fairness of the packet branch is stated on the step of HandlePacket
\* as the inbound channel sees it: handler() is total, so HandlePacket is
\* enabled exactly when the worker runs and a packet is queued, and it is
\* the only step that takes the head off the channel.
SpecLive ==
    /\ Init /\ [][LiveNext]_vars
    /\ WF_input_stream(/\ wstate = "running"
                       /\ input_stream # <<>>
                       /\ input_stream' = Tail(input_stream))
    /\ WF_vars(LivePoll)

---------------------------------------------------------------------------
(* Handler-level specification: handler() applied to one packet, drawn     *)
(* from the commands of the command table and payloads next to them, in    *)
(* every state the worker can hand it (awaits_halt set or not, reply       *)
(* channel open or not); the history starts at this packet.                *)

HandlerPayloads ==
    Payloads \cup
    {<<"q", "S", "u", "p", "p", "o", "r", "t", "e", "d">>,
     <<"v", "M", "u", "s", "t", "R", "e", "p", "l", "y", "E", "m", "p", "t", "y">>,
     <<"q", "T", "S", "t", "a", "t", "u", "s">>,
     <<"q", "T", "f", "V">>,
     <<"q", "T", "s", "P">>,
     <<"q", "f", "T", "h", "r", "e", "a", "d", "I", "n", "f", "o">>,
     <<"q", "L">>,
     <<"q", "C">>,
     <<"q", "O", "f", "f", "s", "e", "t", "s">>,
     <<"Z", "0">>,
     <<"q", "A", "t", "t", "a", "c", "h", "e", "d">>,
     <<"?">>,
     <<"g">>,
     <<"v", "C", "o", "n", "t", "?">>,
     <<"q", "S", "u", "p", "p", "o", "r", "t", "e", "d", ":", "s", "w", "b", "r", "e", "a", "k", "+">>,
     <<"q", "C", "1">>,
     <<"!">>,
     <<"H", "g", "0">>,
     <<"v", "C", "o", "n", "t", "b", ";", "c">>,
     <<"v", "C", "o", "n", "t", "b", ";", "t">>,
     <<"v", "C", "o", "n", "t", "b", ";", "s">>,
     <<"q", "R", "c", "m", "d", "b", ",", "7", "2", "6", "5", "7", "3", "6", "5", "7", "4">>,
     <<"q", "R", "c", "m", "d", ",", "7", "2", "6", "5", "7", "3", "6", "5", "7", "4">>,
     <<"q", "X", "f", "e", "r", ":", "m", "e", "m", "o", "r", "y", "-", "m", "a", "p", "b", ":", "r", "e", "a", "d", ":", ":", "0", ",", "3", "e", "8">>,
     <<"q", "X", "f", "e", "r", ":", "m", "e", "m", "o", "r", "y", "-", "m", "a", "p", ":", "r", "e", "a", "d", ":", ":", "0", ",", "3", "e", "8">>,
     <<"q", "X", "f", "e", "r", ":", "m", "e", "m", "o", "r", "y", "-", "m", "a", "p", ":", "r", "e", "a", "d", ":", ":", "6", "4", ",", "1", "0">>,
     <<"v", "C", "o", "n", "t", ";", "s">>}

HandlerPackets ==
    {[data |-> d, valid |-> v, id |-> 1] : d \in HandlerPayloads, v \in BOOLEAN}

HandlerInit ==
    /\ target \in WorkerTargets
    /\ awaits_halt \in BOOLEAN
    /\ output_open \in BOOLEAN
    /\ input_stream \in {<<p>> : p \in HandlerPackets}
    /\ input_closed = FALSE
    /\ output_stream = <<>>
    /\ wstate = "running"
    /\ received = 1
    /\ handled = <<>>
    /\ core = M4_new(target)
    /\ call = [op |-> "new", n |-> 0]

SpecHandler == HandlerInit /\ [][HandlePacket]_vars


---------------------------------------------------------------------------
(* FpCompX::breakpoint_configuration applied to one address.               *)

\* the address of the unit test breakpoint_register_value: 0x0800_09A4
TestAddress == Word(2048, 2468)

\* every address built from both alignment bits, the ends and the inside
\* of the comparator field and the three bits above it, and the test's
Addresses == SUBSET {0, 1, 2, 7, 28, 29, 30, 31} \cup {TestAddress}

FpCompInit ==
    /\ call \in {[op |-> "new", n |-> 0, address |-> a] : a \in Addresses}
    /\ core = M4_new(CHOOSE t \in Targets : TRUE)
    /\ input_stream = <<>>
    /\ input_closed = FALSE
    /\ output_open = TRUE
    /\ output_stream = <<>>
    /\ awaits_halt = FALSE
    /\ wstate = "running"
    /\ target = core.t
    /\ received = 0
    /\ handled = <<>>

BreakpointConfiguration ==
    /\ call.op = "new"
    /\ call' = [op |-> "breakpoint_configuration", n |-> 1,
                address |-> call.address,
                reg |-> breakpoint_configuration(call.address)]
    /\ UNCHANGED <<core, workerVars>>

SpecFpComp == FpCompInit /\ [][BreakpointConfiguration]_vars


---------------------------------------------------------------------------
(* The breakpoint manager: breakpoint operations called one after another  *)
(* on one M4, between the lifecycle operations of the Z1 / z1 commands.    *)

MaxFpbCalls == 4
MaxFpbFail == 3

\* FP_CTRL values of the targets: no comparator (0x0), one with a literal
\* comparator next to it (0x110), two (0x220), sixteen (0x1000), and a
\* revision 1 unit with two comparators (0x1000_0020)
FpCtrlValues ==
    {Word(0, 0), Word(0, 272), Word(0, 544), Word(0, 4096), Word(4096, 32)}

BreakpointAddresses == {TestAddress, Word(2048, 256), Word(2048, 258)}

FpbTargets ==
    {[t EXCEPT !.fpctrl = f, !.failAt = k] :
        t \in {u \in Targets : /\ u.ctrl = {0, 1}
                               /\ u.demcr = {24}
                               /\ u.resetXpsr = {24, 30}
                               /\ u.haltD = 0 /\ u.rdyD = 0
                               /\ u.failAt = NEVER},
        f \in FpCtrlValues,
        k \in (0..MaxFpbFail) \cup {NEVER}}

FpbInit ==
    /\ core \in {M4_new(t) : t \in FpbTargets}
    /\ call = [op |-> "new", n |-> 0]
    /\ input_stream = <<>>
    /\ input_closed = FALSE
    /\ output_open = TRUE
    /\ output_stream = <<>>
    /\ awaits_halt = FALSE
    /\ wstate = "running"
    /\ target = core.t
    /\ received = 0
    /\ handled = <<>>

FpbSetHwBreakpoint ==
    \E address \in BreakpointAddresses :
        /\ call.n < MaxFpbCalls
        /\ core' = set_hw_breakpoint(Arm(core), address)
        /\ Called("set_hw_breakpoint")

FpbClearHwBreakpoint ==
    \E address \in BreakpointAddresses :
        /\ call.n < MaxFpbCalls
        /\ core' = clear_hw_breakpoint(Arm(core), address)
        /\ Called("clear_hw_breakpoint")

FpbEnableBreakpoints ==
    \E state \in BOOLEAN :
        /\ call.n < MaxFpbCalls
        /\ core' = enable_breakpoints(Arm(core), state)
        /\ call' = [op |-> "enable_breakpoints", n |-> call.n + 1, state |-> state]
        /\ UNCHANGED workerVars

FpbGetAvailableBreakpointUnits ==
    /\ call.n < MaxFpbCalls
    /\ core' = get_available_breakpoint_units(Arm(core))
    /\ Called("get_available_breakpoint_units")

FpbResetAndHalt ==
    /\ call.n < MaxFpbCalls
    /\ core' = reset_and_halt(Arm(core))
    /\ Called("reset_and_halt")

FpbRun ==
    /\ call.n < MaxFpbCalls
    /\ core' = run(Arm(core))
    /\ Called("run")

FpbNext ==
    \/ FpbSetHwBreakpoint
    \/ FpbClearHwBreakpoint
    \/ FpbEnableBreakpoints
    \/ FpbGetAvailableBreakpointUnits
    \/ FpbResetAndHalt
    \/ FpbRun

SpecFpb == FpbInit /\ [][FpbNext]_vars


---------------------------------------------------------------------------
(* gdb_sanitize_file applied to a byte string by a reader of qXfer windows: *)
(* the first request is for any offset and length, each further request of  *)
(* a length of at least one byte is for the offset advanced by the bytes    *)
(* received, until a reply is marked l.                                     *)

MaxLen == 3

SanitizeInit ==
    /\ call \in {[op |-> "new", data |-> s, start |-> o, offset |-> o, len |-> n,
                 at |-> o, reply |-> <<>>, acc |-> <<>>, requests |-> 0,
                 done |-> FALSE] :
                    s \in UNION {[1..k -> {"a", "b"}] : k \in 0..MaxLen},
                    o \in 0..(MaxLen + 1), n \in 0..(MaxLen + 1)}
    /\ core = M4_new(CHOOSE t \in Targets : TRUE)
    /\ input_stream = <<>>
    /\ input_closed = FALSE
    /\ output_open = TRUE
    /\ output_stream = <<>>
    /\ awaits_halt = FALSE
    /\ wstate = "running"
    /\ target = core.t
    /\ received = 0
    /\ handled = <<>>

ReadWindow ==
    /\ ~call.done
    /\ call.requests = 0 \/ call.len >= 1
    /\ \E reply \in {gdb_sanitize_file(call.data, call.offset, call.len)} :
           call' = [call EXCEPT !.op = "gdb_sanitize_file",
                                !.at = call.offset,
                                !.reply = reply,
                                !.offset = @ + Len(reply) - 1,
                                !.acc = @ \o Tail(reply),
                                !.requests = @ + 1,
                                !.done = reply[1] = "l"]
    /\ UNCHANGED <<core, workerVars>>

SpecSanitize == SanitizeInit /\ [][ReadWindow]_vars

---------------------------------------------------------------------------
(* Reading the access trace of the last call                               *)

IsRead(e, addr) == e.op = "R" /\ e.addr = addr
IsWrite(e, addr) == e.op = "W" /\ e.addr = addr

Reads(tr, addr) == {i \in DOMAIN tr : IsRead(tr[i], addr)}
Writes(tr, addr) == {i \in DOMAIN tr : IsWrite(tr[i], addr)}

First(S) == CHOOSE i \in S : \A j \in S : i <= j
Last(S) == CHOOSE i \in S : \A j \in S : j <= i

\* a run of polls: consecutive DHCSR reads, from entry i to entry RunLast(tr, i)
IsPoll(e) == IsRead(e, DhcsrADDRESS)

RunStart(tr, i) == IsPoll(tr[i]) /\ (i = 1 \/ ~IsPoll(tr[i - 1]))

RunLast(tr, i) ==
    CHOOSE j \in i..Len(tr) :
        /\ \A k \in i..j : IsPoll(tr[k])
        /\ j = Len(tr) \/ ~IsPoll(tr[j + 1])

RECURSIVE RunReads(_, _)
RunReads(tr, i) ==
    IF i > Len(tr) \/ ~IsPoll(tr[i]) THEN 0 ELSE tr[i].n + RunReads(tr, i + 1)

SawBit(tr, i, b) == \E k \in i..RunLast(tr, i) : b \in tr[k].val

\* the runs that are polling loops: every run but the single status read that
\* opens reset_and_halt and the one of core_halted
PollRuns(op, tr) ==
    {i \in DOMAIN tr :
        /\ RunStart(tr, i)
        /\ ~(op = "reset_and_halt" /\ i = 1)
        /\ op # "core_halted"}

\* the status bit a polling loop waits for: S_REGRDY after a DCRSR write,
\* S_HALT otherwise
Awaited(tr, i) == IF i > 1 /\ IsWrite(tr[i - 1], DcrsrADDRESS) THEN 16 ELSE 17

\* the polling loop starting at i ran out: all its reads had the bit clear
Exhausted(tr, i, polls) == ~SawBit(tr, i, Awaited(tr, i)) /\ RunReads(tr, i) >= polls

---------------------------------------------------------------------------
(* Reading the reply channel and the history of handler invocations        *)

Unsolicited == {i \in DOMAIN output_stream : output_stream[i].src = 0}
Solicited == {i \in DOMAIN output_stream : output_stream[i].src # 0}

\* the handler invocation took the branch of lines 136-139 to its end
Continued(h) == h.valid /\ Branch(h.data) = "c" /\ h.ret # "panic"

\* the payload is the continue command of the command table (c, vCont;c)
IsContinueCommand(data) ==
    \/ starts_with(data, <<"c">>)
    \/ starts_with(data, <<"v", "C", "o", "n", "t", ";", "c">>)

\* the payload is the stop command of the command table (vCont;t)
IsStopCommand(data) == starts_with(data, <<"v", "C", "o", "n", "t", ";", "t">>)

IsDetach(h) == h.valid /\ starts_with(h.data, <<"D">>)

RepliesTo(id) == {i \in DOMAIN output_stream : output_stream[i].src = id}

(* C1: an unsolicited T05hwbreak:; notification is emitted once per        *)
(* run-to-halt transition: once the poll has emitted it awaits_halt is     *)
(* false, and between two unsolicited notifications a c packet has been    *)
(* handled.                                                                *)
C1_NotifiedOncePerHalt ==
    /\ \A i \in Unsolicited :
          /\ output_stream[i].data = StopReply
          /\ output_stream[i].at = Len(handled) => ~awaits_halt
    /\ \A i, j \in Unsolicited :
          i < j => \E k \in (output_stream[i].at + 1)..output_stream[j].at :
                        Continued(handled[k])

(* C2: leaving the unsolicited notifications aside, the replies on the     *)
(* reply channel are in the order of the packets that triggered them and a *)
(* packet has at most one reply; each is the response of the handler of a  *)
(* valid packet.                                                           *)
C2_RepliesInPacketOrder ==
    /\ \A i, j \in Solicited :
          i < j => output_stream[i].src < output_stream[j].src
    /\ \A i \in Solicited :
          \E k \in DOMAIN handled :
              /\ handled[k].id = output_stream[i].src
              /\ handled[k].valid
              /\ handled[k].response = Some(output_stream[i].data)
              /\ output_stream[i].at = k - 1
    /\ \A k \in DOMAIN handled : handled[k].id = k

C2_Witness ==
    /\ Len(output_stream) = 2
    /\ output_stream[1].src = 1
    /\ output_stream[2].src = 2
    /\ output_stream[1].data # output_stream[2].data

(* C3: handling a valid packet whose payload starts with c or vCont;c      *)
(* invokes run() (one DHCSR write of 0xA05F0001), sets awaits_halt and     *)
(* sends no reply.                                                         *)
C3_ContinueRunsCore ==
    \A k \in DOMAIN handled :
        LET h == handled[k]
        IN  (h.valid /\ IsContinueCommand(h.data) /\ h.cause # "engine") =>
                /\ h.trace = <<[op |-> "W", addr |-> DhcsrADDRESS,
                                val |-> Word(41055, 1), n |-> 1]>>
                /\ h.awaits_after
                /\ ~h.response.some
                /\ RepliesTo(h.id) = {}

(* C4: handling a valid packet whose payload starts with vCont;t issues    *)
(* halt() (DHCSR write of 0xA05F0003), waits until S_HALT reads set, sets  *)
(* awaits_halt to false whatever it was, and replies OK.                   *)
C4_StopHaltsCore ==
    \A k \in DOMAIN handled :
        LET h == handled[k]
        IN  (h.valid /\ IsStopCommand(h.data) /\ h.cause # "engine") =>
                /\ h.trace # <<>>
                /\ h.trace[1] = [op |-> "W", addr |-> DhcsrADDRESS,
                                 val |-> Word(41055, 3), n |-> 1]
                /\ \E i \in Reads(h.trace, DhcsrADDRESS) : s_halt(h.trace[i].val)
                /\ ~h.awaits_after
                /\ h.response = Some(OK)

\* worker() ended on an engine error: in the halt poll, or in a handler
EngineFailure ==
    /\ wstate = "panicked"
    /\ \/ handled = <<>>
       \/ handled[Len(handled)].ret # "panic"
       \/ handled[Len(handled)].cause = "engine"

(* C5: the worker loop ends when the inbound channel is closed or a valid  *)
(* D packet has been handled and, engine errors apart, in no other case; a *)
(* valid D packet gets exactly one OK reply before the worker exits, and   *)
(* no packet is dispatched after it.                                       *)
C5_EndsOnCloseOrDetach ==
    /\ wstate # "running" =>
          \/ wstate = "closed" /\ input_closed /\ input_stream = <<>>
          \/ wstate = "detached" /\ IsDetach(handled[Len(handled)])
          \/ EngineFailure
    /\ \A k \in DOMAIN handled :
          IsDetach(handled[k]) =>
              /\ k = Len(handled)
              /\ wstate # "running"
              /\ Cardinality(RepliesTo(handled[k].id)) = 1
              /\ \A i \in RepliesTo(handled[k].id) : output_stream[i].data = OK

(* C11: whenever an engine operation invoked while handling a packet      *)
(* fails (Timeout or transport error), worker() ends and no reply is sent  *)
(* for that packet; also for the halt() issued by p and by Ctrl-C.         *)
C11_EngineErrorsEndSession ==
    \A k \in DOMAIN handled :
        LET h == handled[k]
        IN  (h.valid /\ (h.cause = "engine" \/ h.dropped)) =>
                /\ h.ret = "panic"
                /\ RepliesTo(h.id) = {}
                /\ k = Len(handled)
                /\ wstate = "panicked"

(* C12: a packet the codec flagged invalid is dropped silently: handling   *)
(* it sends no reply, makes no memory access, leaves awaits_halt as it was *)
(* and does not end the worker, whatever its payload.                      *)
C12_InvalidPacketsDropped ==
    \A k \in DOMAIN handled :
        LET h == handled[k]
        IN  ~h.valid =>
                /\ h.trace = <<>>
                /\ ~h.response.some
                /\ RepliesTo(h.id) = {}
                /\ h.awaits_after = h.awaits_before
                /\ h.ret = "Ok"
                /\ ~h.break_due
                /\ ~h.dropped
                /\ (k = Len(handled) /\ wstate # "running") =>
                       \/ wstate = "closed"
                       \/ wstate = "panicked" /\ h.awaits_after

C12_Witness ==
    /\ Len(handled) = 2
    /\ ~handled[2].valid
    /\ handled[2].data = <<ETX>>
    /\ handled[2].awaits_before
    /\ awaits_halt
    /\ wstate = "running"
    /\ output_stream = <<>>

(* C13: for the packets c then Ctrl-C (0x03), against a target that runs   *)
(* until a halt is requested and then halts, nothing is sent between the   *)
(* two, Ctrl-C forces a halt, and all that is ever sent for the two        *)
(* packets is one T05hwbreak:; reply: the halt poll adds no notification.  *)
C13_ContinueThenInterrupt ==
    (/\ Len(handled) = 2
     /\ handled[1].valid /\ handled[1].data = <<"c">> /\ handled[1].ret = "Ok"
     /\ handled[2].valid /\ handled[2].data = <<ETX>> /\ handled[2].ret = "Ok"
     /\ \A i \in Unsolicited : output_stream[i].at = 2) =>
        /\ handled[2].trace[1] = [op |-> "W", addr |-> DhcsrADDRESS,
                                  val |-> Word(41055, 3), n |-> 1]
        /\ output_stream = <<[data |-> StopReply, src |-> 2, at |-> 1]>>

\* The row of the command table of the RSP dispatcher that a payload selects
\* (prefix match, first match wins), "default" when it matches no prefix.
TableRow(data) ==
    IF starts_with(data, <<"q", "S", "u", "p", "p", "o", "r", "t", "e", "d">>) THEN "qSupported"
    ELSE IF
            \/ starts_with(data, <<"v", "M", "u", "s", "t", "R", "e", "p", "l", "y", "E", "m", "p", "t", "y">>)
            \/ starts_with(data, <<"q", "T", "S", "t", "a", "t", "u", "s">>)
            \/ starts_with(data, <<"q", "T", "f", "V">>)
            \/ starts_with(data, <<"q", "T", "s", "P">>)
            \/ starts_with(data, <<"q", "f", "T", "h", "r", "e", "a", "d", "I", "n", "f", "o">>)
            \/ starts_with(data, <<"q", "L">>)
            \/ starts_with(data, <<"q", "C">>)
            \/ starts_with(data, <<"q", "O", "f", "f", "s", "e", "t", "s">>)
            \/ starts_with(data, <<"Z", "0">>)
    THEN "empty"
    ELSE IF starts_with(data, <<"q", "A", "t", "t", "a", "c", "h", "e", "d">>) THEN "qAttached"
    ELSE IF starts_with(data, <<"?">>) THEN "?"
    ELSE IF starts_with(data, <<"g">>) THEN "g"
    ELSE IF starts_with(data, <<"p">>) THEN "p"
    ELSE IF starts_with(data, <<"m">>) THEN "m"
    ELSE IF starts_with(data, <<"v", "C", "o", "n", "t", "?">>) THEN "vCont?"
    ELSE IF
            \/ starts_with(data, <<"c">>)
            \/ starts_with(data, <<"v", "C", "o", "n", "t", ";", "c">>)
    THEN "c"
    ELSE IF starts_with(data, <<"v", "C", "o", "n", "t", ";", "t">>) THEN "t"
    ELSE IF
            \/ starts_with(data, <<"s">>)
            \/ starts_with(data, <<"v", "C", "o", "n", "t", ";", "s">>)
    THEN "s"
    ELSE IF starts_with(data, <<"Z", "1">>) THEN "Z1"
    ELSE IF starts_with(data, <<"z", "1">>) THEN "z1"
    ELSE IF starts_with(data, <<"X">>) THEN "X"
    ELSE IF starts_with(data, <<"q", "X", "f", "e", "r", ":", "m", "e", "m", "o", "r", "y", "-", "m", "a", "p", ":", "r", "e", "a", "d">>) THEN "qXfer"
    ELSE IF starts_with(data, <<ETX>>) THEN "ETX"
    ELSE IF starts_with(data, <<"D">>) THEN "D"
    ELSE IF starts_with(data, <<"q", "R", "c", "m", "d", ",", "7", "2", "6", "5", "7", "3", "6", "5", "7", "4">>) THEN "qRcmd"
    ELSE "default"

\* the reply the command table gives for the rows that have no action
TabledReply(row) ==
    CASE row = "qSupported" -> QSupportedReply
      [] row = "empty" -> <<>>
      [] row = "qAttached" -> <<"1">>
      [] row = "?" -> S05
      [] row = "g" -> <<"x", "x", "x", "x", "x", "x", "x", "x">>
      [] row = "vCont?" -> <<"v", "C", "o", "n", "t", ";", "c", ";", "t", ";", "s">>
      [] row = "default" -> OK

StatelessRows == {"qSupported", "empty", "qAttached", "?", "g", "vCont?", "default"}

\* <offset>,<length> of a qXfer:memory-map:read:<annex>:<offset>,<length>
XferWindow(data) ==
    LET w == Recap(data, <<":", ":", "\\w+", ",", "\\w+">>)
    IN  [offset |-> HexNumber(w.caps[1]), len |-> HexNumber(w.caps[2])]

(* C14: a valid packet whose payload starts with qXfer:memory-map:read,    *)
(* with offset o and length n, is answered with the window of the XML      *)
(* memory map that o and n select, prefixed with m or l; it is not         *)
(* answered with the default OK.                                           *)
C14_MemoryMapWindow ==
    \A k \in DOMAIN handled :
        LET h == handled[k]
        IN  (h.valid /\ TableRow(h.data) = "qXfer") =>
                /\ h.response.some
                /\ h.response.data # OK
                /\ h.response.data =
                       gdb_sanitize_file(MemoryMapXml, XferWindow(h.data).offset,
                                         XferWindow(h.data).len)

(* C15: for the commands of the command table that have no action, and    *)
(* for a payload that matches no prefix of the table, the handler replies  *)
(* exactly what the table says (OK by default), makes no memory access,    *)
(* leaves awaits_halt as it was and does not ask for termination.          *)
C15_StatelessCommands ==
    \A k \in DOMAIN handled :
        LET h == handled[k]
        IN  (h.valid /\ TableRow(h.data) \in StatelessRows) =>
                /\ h.response = Some(TabledReply(TableRow(h.data)))
                /\ h.trace = <<>>
                /\ h.awaits_after = h.awaits_before
                /\ ~h.break_due
                /\ h.ret # "panic"

(* C6: whenever reset_and_halt() returns after having read DEMCR, the last *)
(* value written to DEMCR, and the value DEMCR holds, is the value read at *)
(* the start of the call, whether VC_CORERESET was set or clear.           *)
C6_DemcrRestoredOnReturn ==
    (call.op = "reset_and_halt" /\ Reads(core.trace, DemcrADDRESS) # {}) =>
        LET tr == core.trace
            demcr_read == tr[First(Reads(tr, DemcrADDRESS))].val
        IN  /\ core.t.demcr = demcr_read
            /\ Writes(tr, DemcrADDRESS) # {} =>
                   tr[Last(Writes(tr, DemcrADDRESS))].val = demcr_read

(* C7: after reset_and_halt() returns successfully XPSR bit 24 is 1: when  *)
(* the XPSR value read after the halt has bit 24 clear, XPSR is written    *)
(* through write_core_reg with bit 24 set and the other bits as read; when *)
(* bit 24 was set, XPSR is not written.                                    *)
XpsrWrites(tr) ==
    {i \in Writes(tr, DcrsrADDRESS) : 16 \in tr[i].val /\ Field(tr[i].val, 6, 0) = XPSR}

C7_ThumbAfterResetAndHalt ==
    (call.op = "reset_and_halt" /\ core.res = "Ok") =>
        LET tr == core.trace
            rd == First(Reads(tr, DcrdrADDRESS))
            xpsr_value == tr[rd].val
        IN  /\ 24 \in core.t.regs[XPSR]
            /\ IF 24 \notin xpsr_value
               THEN /\ Cardinality(XpsrWrites(tr)) = 1
                    /\ \A i \in XpsrWrites(tr) :
                          /\ i > rd + 1
                          /\ IsWrite(tr[i - 1], DcrdrADDRESS)
                          /\ tr[i - 1].val = xpsr_value \cup {24}
                          /\ core.t.regs[XPSR] = xpsr_value \cup {24}
               ELSE /\ XpsrWrites(tr) = {}
                    /\ Writes(tr, DcrdrADDRESS) = {}
                    /\ core.t.regs[XPSR] = xpsr_value

C7_Witness ==
    /\ call.op = "reset_and_halt"
    /\ core.res = "Ok"
    /\ XpsrWrites(core.trace) # {}
    /\ core.t.regs[XPSR] = {24, 30}

(* C8: every write to DHCSR (0xE000EDF0) carries 0xA05F in bits 31:16, and *)
(* its bits 15:0 are exactly the control bits the operation sets, whatever *)
(* DHCSR values were read before.                                          *)
ControlBits(op) ==
    IF op = "halt" THEN {0, 1}
    ELSE IF op = "run" THEN {0}
    ELSE IF op = "step" THEN {0, 2, 3}
    ELSE IF op = "reset_and_halt" THEN {0}
    ELSE {}

C8_DhcsrWritesKeyed ==
    \A i \in Writes(core.trace, DhcsrADDRESS) :
        /\ Field(core.trace[i].val, 31, 16) = 41055
        /\ core.trace[i].val \cap (0..15) = ControlBits(call.op)
        /\ ControlBits(call.op) # {}

C8_Witness ==
    /\ call.op = "reset_and_halt"
    /\ Len(core.trace) >= 2
    /\ IsRead(core.trace[1], DhcsrADDRESS)
    /\ 5 \in core.trace[1].val
    /\ IsWrite(core.trace[2], DhcsrADDRESS)

(* C9: every engine operation returns; each polling loop reads DHCSR at    *)
(* most 100 times, and the operation returns Timeout exactly when a loop   *)
(* made its 100 reads without seeing the awaited status bit.               *)
C9_PollsBounded ==
    LET tr == core.trace
        runs == PollRuns(call.op, tr)
    IN  /\ core.res \in {"Ok", "Timeout", "Transport"}
        /\ \A i \in runs :
              /\ RunReads(tr, i) <= HALT_POLLS
              /\ RunReads(tr, i) <= REGRDY_POLLS
              /\ Exhausted(tr, i, HALT_POLLS) => core.res = "Timeout"
        /\ core.res = "Timeout" =>
              \E i \in runs : RunLast(tr, i) = Len(tr) /\ Exhausted(tr, i, HALT_POLLS)

C9_Witness ==
    /\ call.op = "read_core_reg"
    /\ core.res = "Timeout"
    /\ core.trace[Len(core.trace)].n = REGRDY_POLLS

(* C10: if S_HALT is clear on each of the 100 polls of the halted loop of  *)
(* halt(), step() or reset_and_halt(), the operation returns Timeout and   *)
(* the 100th poll is its last memory access.                               *)
C10_NoAccessAfterTimeout ==
    call.op \in {"halt", "step", "reset_and_halt"} =>
        LET tr == core.trace
        IN  \A i \in PollRuns(call.op, tr) :
                (Awaited(tr, i) = 17 /\ Exhausted(tr, i, HALT_POLLS)) =>
                    /\ core.res = "Timeout"
                    /\ RunLast(tr, i) = Len(tr)
                    /\ RunReads(tr, i) = HALT_POLLS

C10_Witness ==
    /\ call.op = "reset_and_halt"
    /\ core.res = "Timeout"
    /\ Writes(core.trace, AircrADDRESS) # {}
    /\ Exhausted(core.trace, Last(Writes(core.trace, AircrADDRESS)) + 1, HALT_POLLS)


---------------------------------------------------------------------------
\* C16: for every address a, breakpoint_configuration(a) has bits 28:2 equal
\* to (a & 0x1FFFFFFC) >> 2, bits 31:30 equal to 0b01 when a & 0x3 == 0 and
\* to 0b10 otherwise, bit 0 set and bits 29 and 1 clear; the configuration
\* of 0x080009A4 is 0x480009A5.
C16_BreakpointConfiguration ==
    call.op = "breakpoint_configuration" =>
        LET a == call.address
            r == call.reg
        IN  /\ Field(r, 28, 2) = Field(a \cap (2..28), 28, 0) \div 4
            /\ Field(r, 31, 30) = (IF Field(a, 1, 0) = 0 THEN 1 ELSE 2)
            /\ 0 \in r
            /\ r \cap {1, 29} = {}
            /\ (a = TestAddress => r = Word(18432, 2469))

C16_Witness ==
    /\ call.op = "breakpoint_configuration"
    /\ call.address = TestAddress
    /\ call.reg = Word(18432, 2469)


---------------------------------------------------------------------------
\* C17: in every reachable state of the engine the number of entries of
\* active_breakpoints is at most the number of comparators FP_CTRL.NUM_CODE
\* of the target's revision 0 unit, and zero when there is no such unit.
NumCodeOf(fpctrl) == 16 * Field(fpctrl, 14, 12) + Field(fpctrl, 7, 4)

---------------------------------------------------------------------------
\* entry i of the trace comes after a DHCSR read that had status bit b set
SeenBefore(tr, i, b) ==
    \E j \in 1..(i - 1) : IsRead(tr[j], DhcsrADDRESS) /\ b \in tr[j].val

\* the entries of the core-register transfer registers DCRSR and DCRDR
Transfers(tr) ==
    {i \in DOMAIN tr : tr[i].addr \in {DcrsrADDRESS, DcrdrADDRESS}}

\* C18: halt() writes DHCSR exactly once, with the value 0xA05F0003 (key,
\* C_HALT, C_DEBUGEN), as its first memory access; every later DHCSR access
\* is a read; the PC read (DCRSR write, then DCRDR read) comes only after a
\* DHCSR read that had S_HALT set.
C18_HaltWritesOnceThenPolls ==
    call.op = "halt" =>
        LET tr == core.trace
        IN  /\ core.res = "Ok" => tr # <<>>
            /\ tr # <<>> =>
                  tr[1] = [op |-> "W", addr |-> DhcsrADDRESS,
                           val |-> Word(41055, 3), n |-> 1]
            /\ Writes(tr, DhcsrADDRESS) \subseteq {1}
            /\ \A i \in Transfers(tr) : SeenBefore(tr, i, 17)
            /\ \A i \in Writes(tr, DcrsrADDRESS) :
                  tr[i].val = Word(0, PC) /\ tr[i].n = 1
            /\ core.res = "Ok" =>
                  /\ IsRead(tr[Len(tr)], DcrdrADDRESS)
                  /\ core.val = tr[Len(tr)].val

\* halt() on a core that halts on the hundredth poll, with its PC read
C18_Witness ==
    /\ call.op = "halt"
    /\ core.res = "Ok"
    /\ RunReads(core.trace, 2) = HALT_POLLS
    /\ Transfers(core.trace) # {}


---------------------------------------------------------------------------
\* a DHCSR read with S_REGRDY set lies strictly between entries i and j
ReadyBetween(tr, i, j) ==
    \E k \in (i + 1)..(j - 1) : IsRead(tr[k], DhcsrADDRESS) /\ 16 \in tr[k].val

\* C19: read_core_reg writes DCRSR (regwnr 0, regsel) first, reads DCRDR
\* only after a later DHCSR read had S_REGRDY set, and returns that DCRDR
\* value; write_core_reg writes DCRDR, then DCRSR (regwnr 1, regsel), and
\* returns Ok only after a DHCSR read that follows the DCRSR write had
\* S_REGRDY set.
C19_RegisterTransferHandshake ==
    LET tr == core.trace
    IN  /\ call.op = "read_core_reg" =>
              /\ core.res = "Ok" => tr # <<>>
              /\ tr # <<>> =>
                    /\ IsWrite(tr[1], DcrsrADDRESS)
                    /\ tr[1].n = 1
                    /\ 16 \notin tr[1].val
                    /\ Field(tr[1].val, 6, 0) \in RegSels
                    /\ tr[1].val \subseteq 0..6
              /\ \A i \in Reads(tr, DcrdrADDRESS) :
                    /\ ReadyBetween(tr, 1, i)
                    /\ i = Len(tr) /\ tr[i].n = 1
                    /\ core.res = "Ok" /\ core.val = tr[i].val
              /\ core.res = "Ok" => Reads(tr, DcrdrADDRESS) # {}
        /\ call.op = "write_core_reg" =>
              /\ core.res = "Ok" => Len(tr) >= 3
              /\ tr # <<>> => IsWrite(tr[1], DcrdrADDRESS) /\ tr[1].n = 1
              /\ \A i \in Writes(tr, DcrsrADDRESS) :
                    /\ i = 2 /\ tr[i].n = 1
                    /\ tr[i].val = {16} \cup Bits16(XPSR)
              /\ core.res = "Ok" =>
                    /\ Writes(tr, DcrsrADDRESS) = {2}
                    /\ ReadyBetween(tr, 2, Len(tr) + 1)

\* a PC read whose S_REGRDY came on the hundredth poll
C19_Witness ==
    /\ call.op = "read_core_reg"
    /\ core.res = "Ok"
    /\ RunReads(core.trace, 2) = REGRDY_POLLS
    /\ core.val = BootPc


---------------------------------------------------------------------------
\* the entries of tr that come before entry i, resp. after it
Before(S, i) == {j \in S : j < i}
After(S, i) == {j \in S : j > i}

\* C20: reset_and_halt() reads DHCSR first and writes C_DEBUGEN (0xA05F0001)
\* exactly when it read it clear; reads DEMCR and writes it with VC_CORERESET
\* set exactly when it read it clear; both writes precede the one AIRCR write
\* (VECTKEY 0x05FA, SYSRESETREQ); every DHCSR poll follows the AIRCR write;
\* the XPSR read and fix-up follow a poll that had S_HALT set; the DEMCR
\* restore write (the value read) follows them and precedes the PC read,
\* which is the last access of a successful call.
C20_ResetAndHaltOrder ==
    call.op = "reset_and_halt" =>
        LET tr == core.trace
            n == Len(tr)
            aircr == Writes(tr, AircrADDRESS)
            demcrR == Reads(tr, DemcrADDRESS)
            demcrW == Writes(tr, DemcrADDRESS)
            pcSel == {i \in Writes(tr, DcrsrADDRESS) : tr[i].val = Word(0, PC)}
        IN  /\ core.res = "Ok" => aircr # {} /\ pcSel # {}
            /\ n >= 1 => IsRead(tr[1], DhcsrADDRESS) /\ tr[1].n = 1
            \* the C_DEBUGEN write
            /\ Writes(tr, DhcsrADDRESS) \subseteq {2}
            /\ n >= 2 => (IsWrite(tr[2], DhcsrADDRESS) <=> 0 \notin tr[1].val)
            /\ \A i \in Writes(tr, DhcsrADDRESS) :
                  tr[i].val = Word(41055, 1) /\ tr[i].n = 1
            \* the DEMCR read and the VC_CORERESET write
            /\ Cardinality(demcrR) <= 1
            /\ \A r \in demcrR :
                  /\ r = (IF 0 \in tr[1].val THEN 2 ELSE 3)
                  /\ n > r => (IsWrite(tr[r + 1], DemcrADDRESS) <=> 0 \notin tr[r].val)
                  /\ \A w \in demcrW :
                        /\ w > r /\ tr[w].n = 1
                        /\ tr[w].val = (IF w = r + 1 THEN tr[r].val \cup {0}
                                        ELSE tr[r].val)
            /\ demcrW # {} => demcrR # {}
            \* the AIRCR write
            /\ Cardinality(aircr) <= 1
            /\ \A a \in aircr :
                  /\ tr[a].val = Word(1530, 4) /\ tr[a].n = 1
                  /\ demcrR # {}
                  /\ a = First(demcrR) + (IF 0 \in tr[First(demcrR)].val THEN 1 ELSE 2)
                  /\ Writes(tr, DhcsrADDRESS) \subseteq 1..(a - 1)
                  /\ Cardinality(After(demcrW, a)) <= 1
            \* polls for S_HALT start after the AIRCR write
            /\ \A i \in Reads(tr, DhcsrADDRESS) \ {1} : Before(aircr, i) # {}
            \* register transfers only after S_HALT was seen by such a poll
            /\ \A i \in Transfers(tr) :
                  \E j \in 2..(i - 1) :
                      /\ IsRead(tr[j], DhcsrADDRESS) /\ 17 \in tr[j].val
                      /\ Before(aircr, j) # {}
            \* the restore write follows the XPSR read and fix-up and
            \* precedes the PC read
            /\ \A a \in aircr : \A w \in After(demcrW, a) :
                  /\ \E x \in Before(Reads(tr, DcrdrADDRESS), w) : x > a
                  /\ \A i \in Before(Transfers(tr), w) :
                        IsWrite(tr[i], DcrsrADDRESS) =>
                            Field(tr[i].val, 6, 0) = XPSR
                  /\ \A i \in After(DOMAIN tr, w) :
                        \/ i \in pcSel /\ i = w + 1
                        \/ IsRead(tr[i], DhcsrADDRESS)
                        \/ IsRead(tr[i], DcrdrADDRESS) /\ i = n
            /\ \A p \in pcSel : \E a \in aircr : Before(After(demcrW, a), p) # {}
            /\ core.res = "Ok" =>
                  /\ IsRead(tr[n], DcrdrADDRESS)
                  /\ core.val = tr[n].val

\* a reset_and_halt that made every conditional write: C_DEBUGEN and
\* VC_CORERESET were read clear and XPSR came back without the Thumb bit
C20_Witness ==
    /\ call.op = "reset_and_halt"
    /\ core.res = "Ok"
    /\ Writes(core.trace, DhcsrADDRESS) = {2}
    /\ IsWrite(core.trace[4], DemcrADDRESS)
    /\ Writes(core.trace, DcrdrADDRESS) # {}
    /\ Cardinality(Writes(core.trace, DemcrADDRESS)) = 2


---------------------------------------------------------------------------
\* packet i is on the inbound channel; packet i has been handed to handler()
Queued(i) == \E k \in DOMAIN input_stream : input_stream[k].id = i
Dispatched(i) == \E k \in DOMAIN handled : handled[k].id = i

\* what the last poll and the handled continue commands did
PollAndRunReturn ==
    /\ (call.op = "await_halt" /\ call.awaits) =>
          /\ Len(core.trace) <= 1
          /\ \A i \in DOMAIN core.trace :
                IsRead(core.trace[i], DhcsrADDRESS) /\ core.trace[i].n = 1
          /\ core.res = "Ok" => Len(core.trace) = 1
          /\ core.res \in {"Ok", "Transport"}
    /\ \A k \in DOMAIN handled :
          (Continued(handled[k]) /\ handled[k].cause # "engine") =>
              handled[k].trace = <<[op |-> "W", addr |-> DhcsrADDRESS,
                                    val |-> Word(41055, 1), n |-> 1]>>
    /\ (wstate = "panicked" /\ (handled = <<>> \/ handled[Len(handled)].ret # "panic")) =>
          call.op = "await_halt" /\ core.res = "Transport"

---------------------------------------------------------------------------
\* what a returned enable_breakpoints(state) has done
EnableBreakpointsDone ==
    (call.op = "enable_breakpoints" /\ core.res = "Ok") =>
        /\ core.trace = <<[op |-> "W", addr |-> FpCtrlADDRESS,
                           val |-> IF call.state THEN Word(0, 3) ELSE Word(0, 2),
                           n |-> 1]>>
        /\ core.hw_breakpoints_enabled

\* C22: a successful enable_breakpoints(state) writes FP_CTRL once, 0x3 for
\* true and 0x2 for false, and leaves hw_breakpoints_enabled true for both;
\* the flag is false on a new M4, keeps its value when the FP_CTRL write of
\* enable_breakpoints fails, and no engine operation sets it back to false.
C22_BreakpointFlagLatches ==
    /\ ~core.hw_breakpoints_enabled
    /\ []EnableBreakpointsDone
    /\ [][/\ core.hw_breakpoints_enabled => core'.hw_breakpoints_enabled
          /\ (call'.op = "enable_breakpoints" /\ core'.res # "Ok") =>
                /\ core'.hw_breakpoints_enabled = core.hw_breakpoints_enabled
                /\ core'.trace = <<>>]_vars

\* enable_breakpoints(false) has returned Ok on an M4 whose flag was false
C22_Witness ==
    /\ call.op = "enable_breakpoints"
    /\ call.n = 1
    /\ ~call.state
    /\ core.res = "Ok"
    /\ core.hw_breakpoints_enabled
    /\ 0 \notin core.t.fpctrl


---------------------------------------------------------------------------
\* C23: gdb_sanitize_file(S, o, n) is l alone when o > |S|; otherwise it is
\* a marker followed by the bytes S[o..min(o+n,|S|)], the marker being m
\* when these are at least n bytes and l when they are fewer.  A reader of
\* windows of n >= 1 bytes gets n bytes with every reply marked m, so that
\* it gets the reply marked l after at most |S| / n + 1 requests, and has
\* then received S from its first offset on, in order: all of S from 0.
C23_WindowsReassemble ==
    LET S == call.data
        o == call.at
        n == call.len
        e == IF o + n < Len(S) THEN o + n ELSE Len(S)
    IN  /\ call.op = "gdb_sanitize_file" =>
              /\ o > Len(S) => call.reply = <<"l">>
              /\ o <= Len(S) =>
                    /\ Len(call.reply) = 1 + (e - o)
                    /\ \A i \in 1..(e - o) : call.reply[i + 1] = S[o + i]
                    /\ call.reply[1] = (IF e - o >= n THEN "m" ELSE "l")
        /\ (n >= 1 /\ call.start <= Len(S)) =>
              /\ ~call.done => Len(call.acc) = call.requests * n
              /\ call.requests <= (Len(S) - call.start) \div n + 1
              /\ Len(call.acc) <= Len(S) - call.start
              /\ \A i \in 1..Len(call.acc) : call.acc[i] = S[call.start + i]
              /\ call.done => Len(call.acc) = Len(S) - call.start
              /\ (call.done /\ call.start = 0) => call.acc = S
              /\ ~call.done => ENABLED ReadWindow

\* a string of two windows read from offset 0: two replies marked m, then
\* the reply l alone
C23_Witness ==
    /\ call.done
    /\ call.start = 0
    /\ call.len = 1
    /\ call.data = <<"a", "b">>
    /\ call.requests = 3
    /\ call.acc = <<"a", "b">>
    /\ call.reply = <<"l">>


---------------------------------------------------------------------------
\* the payload is a command that clears awaits_halt (s, vCont;t)
ClearsAwaitsHalt(data) == starts_with(data, <<"s">>) \/ IsStopCommand(data)

\* what a halt poll does in the current state of the worker
PollNow ==
    await_halt(Arm(M4_new(target)),
               [open |-> output_open, stream |-> output_stream],
               awaits_halt, Len(handled))

\* C24: with awaits_halt false the halt poll sends nothing and makes no
\* memory access; every unsolicited T05hwbreak:; was sent with awaits_halt
\* set, after a valid continue packet had been handled and with no valid
\* packet that clears awaits_halt (s, vCont;t) handled since.
C24_PollInertUnlessContinued ==
    /\ (wstate = "running" /\ ~awaits_halt) =>
          /\ PollNow.m.trace = <<>>
          /\ PollNow.out.stream = output_stream
          /\ ~PollNow.panic
    /\ \A i \in Unsolicited :
          LET at == output_stream[i].at
          IN  /\ output_stream[i].data = StopReply
              /\ at >= 1
              /\ handled[at].awaits_after
              /\ \E k \in 1..at :
                    /\ handled[k].valid
                    /\ IsContinueCommand(handled[k].data)
                    /\ \A j \in (k + 1)..at :
                          ~(handled[j].valid /\ ClearsAwaitsHalt(handled[j].data))

===========================================================================
